---- MODULE Spec2Model ----
(***************************************************************************)
(* Patent categorisation pipeline: the RFSL extractor, the Patent          *)
(* Knowledge Graph (PKG) builder and the batch classifier, as state        *)
(* machines.  Strings are sequences of one-character strings, so that      *)
(* lower(), strip(), slicing and substring search are computed.            *)
(***************************************************************************)
EXTENDS Integers, Sequences, FiniteSets, TLC

VARIABLES
    \* ---- PKGBuilder (pkg_builder.py) ----
    graph_nodes,      \* self.graph nodes: node id -> attribute record
    graph_edges,      \* self.graph edges: <<source, target>> -> relation
    entity_counter,   \* self.entity_counter: label -> count (defaultdict(int))
    patent_stats,     \* build_pkg_from_all_patents: stats of the files built
    file_errors,      \* number of files reported by the except branch
    files_read,       \* number of rfsl_files the loop has visited
    pkg_pc,           \* "loop", or "crashed" once an exception left the loop
    last_build,       \* the last loop iteration: its input and the locals of the call
    node_log,         \* every add_entity_node call so far: the label and the id it gave
    global_stats,     \* the last get_statistics call: the files read by then, the dict returned
    \* ---- BatchPatentClassifier (batch_classifier.py) ----
    patent_ids,       \* self.patent_ids
    results,          \* self.results
    batch_idx,        \* number of ids the loop of process_all has visited
    successful,       \* local of process_all
    failed,           \* local of process_all
    batch_pc,         \* "idle", "loop" inside process_all, "returned" after it
    returned,         \* the list the last process_all returned
    call_log,         \* the iterations of the last process_all: id, outcome, result
    cache,            \* PatentCategorizer: what data/cache/<id>.json holds
    analyses,         \* analyze_patent calls so far (stands for datetime.now())
    calls,            \* process_all calls so far
    \* ---- RFSLExtractor (rfsl_extractor.py) ----
    lexicon,          \* the tables the extractor reads (self.structures, ...)
    ext_call,         \* the last method call: argument and result
    ext_prev,         \* the call before it
    ext_calls,        \* number of calls made
    \* ---- PatentSimilarityAnalyzer (similarity_analyzer.py) ----
    rfsl_patents,        \* the patent ids of the *_rfsl.json files the graph was built from
    full_graph,          \* self.full_graph: the graph loaded from the pickle file
    analyzer_patent_ids, \* self.patent_ids
    patent_subgraphs,    \* self.patent_subgraphs: patent id -> subgraph
    sim_call,            \* the last method call and what it returned
    sim_prev,            \* the call before it
    sim_calls,           \* number of calls made
    \* ---- taxonomy matcher (cpc_taxonomy.py, patent_categorizer.py) ----
    cpc_taxonomy,        \* the object CPC_TAXONOMY of cpc_taxonomy.py as it is now
    code_index,          \* the object CODE_INDEX of cpc_taxonomy.py as it is now
    tax_call,            \* the last call: its arguments and what it returned
    tax_calls,           \* number of calls made
    \* ---- KMeansPatentClassifier (kmeans_classifier.py) ----
    km_graph,            \* self.full_graph
    km_patent_ids,       \* self.patent_ids
    km_subgraphs,        \* self.patent_subgraphs
    feature_matrix,      \* self.feature_matrix: the rows, none before extract_features
    feature_names,       \* self.feature_names
    km_calls             \* number of extract_features calls made

pkg_vars == <<graph_nodes, graph_edges, entity_counter, patent_stats,
              file_errors, files_read, pkg_pc, last_build, node_log, global_stats>>

batch_vars == <<patent_ids, results, batch_idx, successful, failed, batch_pc,
                returned, call_log, cache, analyses, calls>>

ext_vars == <<lexicon, ext_call, ext_prev, ext_calls>>

sim_vars == <<rfsl_patents, full_graph, analyzer_patent_ids, patent_subgraphs,
              sim_call, sim_prev, sim_calls>>

tax_vars == <<cpc_taxonomy, code_index, tax_call, tax_calls>>

km_vars == <<km_graph, km_patent_ids, km_subgraphs, feature_matrix, feature_names, km_calls>>

vars == <<pkg_vars, batch_vars, ext_vars, sim_vars, tax_vars, km_vars>>

(***************************************************************************)
(* Bounds of the model.                                                    *)
(***************************************************************************)
MaxFiles == 2
MaxEntities == 3
MaxBatch == 3
MaxCalls == 2
MaxChunks == 3
MaxPatents == 3
MaxCodes == 3
MaxTaxCalls == 2

\* limits of the program
DESCRIPTION_CHARS == 10000
REQUIREMENT_KEY_CHARS == 40

(***************************************************************************)
(* Strings.                                                                *)
(***************************************************************************)
UpperLetters == <<"A","B","C","D","E","F","G","H","I","J","K","L","M",
                  "N","O","P","Q","R","S","T","U","V","W","X","Y","Z">>
LowerLetters == <<"a","b","c","d","e","f","g","h","i","j","k","l","m",
                  "n","o","p","q","r","s","t","u","v","w","x","y","z">>
Whitespace == {" ", "\t", "\n", "\r", "\f"}

LowerChar(c) ==
    IF \E i \in 1..Len(UpperLetters) : UpperLetters[i] = c
    THEN LowerLetters[CHOOSE i \in 1..Len(UpperLetters) : UpperLetters[i] = c]
    ELSE c

\* str.lower()
Lower(s) == [i \in 1..Len(s) |-> LowerChar(s[i])]

\* s[a:b] with 0-based Python indices, 0 <= a
Slice(s, a, b) ==
    LET hi == IF b > Len(s) THEN Len(s) ELSE b
    IN  IF a >= hi THEN <<>> ELSE [i \in 1..(hi - a) |-> s[a + i]]

\* str.strip()
Strip(s) ==
    LET keep == {i \in 1..Len(s) : s[i] \notin Whitespace}
    IN  IF keep = {} THEN <<>>
        ELSE LET lo == CHOOSE i \in keep : \A j \in keep : i <= j
                 hi == CHOOSE i \in keep : \A j \in keep : j <= i
             IN  Slice(s, lo - 1, hi)

Abs(x) == IF x < 0 THEN -x ELSE x

(***************************************************************************)
(* RFSL records read by the PKG builder (the *_rfsl.json files).           *)
(***************************************************************************)
Kinds == <<"R", "F", "S", "L">>
KindSet == {"R", "F", "S", "L"}
PatentIds == <<"P1", "P2">>

\* The entities a file may list, per kind: <<text, position>>.  The offsets put
\* the pairs of each rule at its threshold and one below it; the structures
\* have two spellings of one label and a second label.
EntityMenu == [k \in KindSet |->
    CASE k = "R" -> { <<(<<"s","p","a","r">>), 399>> }
      [] k = "F" -> { <<(<<"s","p","a","r">>), 199>>, <<(<<"s","p","a","r">>), 200>> }
      [] k = "S" -> { <<(<<"s","p","a","r">>), 100>>, <<(<<"S","p","a","r"," ">>), 101>>,
                      <<(<<"w","e","b">>), 101>> }
      [] k = "L" -> { <<(<<"s","p","a","r">>), 120>>, <<(<<"s","p","a","r">>), 150>> }]

\* A dict is the set of its keys and a value for each (a default for an absent one).
\* The extractor writes 'category' for structures and locations only.
EntityKeys == [k \in KindSet |->
    IF k \in {"S", "L"} THEN {"entity", "position", "category"}
    ELSE {"entity", "position"}]

\* one entity dict of a kind list
EntityOptions == [k \in KindSet |->
    {[keys |-> EntityKeys[k], entity |-> m[1], position |-> m[2], category |-> "cat"] :
        m \in EntityMenu[k]}]

RECURSIVE ListsOfLen(_, _)
ListsOfLen(S, n) ==
    IF n = 0 THEN {<<>>}
    ELSE {Append(l, e) : l \in ListsOfLen(S, n - 1), e \in S}

\* the kind lists from kind number i on, holding at most b entities in all
RECURSIVE KindLists(_, _)
KindLists(i, b) ==
    IF i > Len(Kinds) THEN {<<>>}
    ELSE UNION {
            {<<l>> \o rest : l \in ListsOfLen(EntityOptions[Kinds[i]], n),
                             rest \in KindLists(i + 1, b - n)}
            : n \in 0..b}

EntityDicts == [b \in 0..(MaxEntities) |->
    {[keys |-> KindSet, R |-> t[1], F |-> t[2], S |-> t[3], L |-> t[4]] :
        t \in KindLists(1, b)}]

NoEntities == [keys |-> {}, R |-> <<>>, F |-> <<>>, S |-> <<>>, L |-> <<>>]

\* an entities dict that lacks the list of one kind
WithoutKind(e, k) == [e EXCEPT !.keys = KindSet \ {k}, ![k] = <<>>]

\* an entities dict whose entity i of kind k lacks its text
WithoutText(e, k, i) ==
    [e EXCEPT ![k][i] = [keys |-> @.keys \ {"entity"}, entity |-> <<>>,
                         position |-> @.position, category |-> @.category]]

\* the entities dicts of at most b entities that add_entity_node or
\* extract_relations cannot read to the end
BrokenEntityDicts(b) ==
    {WithoutKind(e, k) : e \in EntityDicts[b], k \in {"R", "L"}}
    \cup UNION {{WithoutText(e, k, i) : i \in 1..Len(e[k])} :
                  e \in EntityDicts[b], k \in {"S", "L"}}

\* The records a file may hold, of at most b entities and naming a patent of
\* ids: 'patent_id' or 'entities' may be absent, and so may a kind list of the
\* entities or the text of an entity.
RfslRecords(ids, b) ==
    {[keys |-> {"patent_id", "entities"}, patent_id |-> p, entities |-> e] :
        p \in ids, e \in EntityDicts[b]}
    \cup {[keys |-> {"entities"}, patent_id |-> "", entities |-> e] :
            e \in EntityDicts[IF b > 0 THEN 1 ELSE 0]}
    \cup {[keys |-> {"patent_id"}, patent_id |-> p, entities |-> NoEntities] : p \in ids}
    \cup {[keys |-> {"patent_id", "entities"}, patent_id |-> p, entities |-> e] :
            p \in ids, e \in BrokenEntityDicts(IF b > 2 THEN 2 ELSE b)}

(***************************************************************************)
(* PKGBuilder.                                                             *)
(***************************************************************************)
ADDRESSES_DIST == 200
USES_DIST == 100
LOCATED_AT_DIST == 50
OCCURS_AT_DIST == 80

\* f"{patent_id}_{entity_type}_{n}": the three parts are recovered from the
\* string (the kind is one letter, n is digits), so the id is the triple
NodeId(patent_id, entity_type, n) == <<patent_id, entity_type, n>>

\* defaultdict(int) read
CounterGet(counter, key) == IF key \in DOMAIN counter THEN counter[key] ELSE 0

\* dict.get(key, default)
GetOr(d, key, default) == IF key \in d.keys THEN d[key] ELSE default

RECURSIVE SumOver(_, _)
SumOver(f, S) ==
    IF S = {} THEN 0
    ELSE LET x == CHOOSE x \in S : TRUE IN f[x] + SumOver(f, S \ {x})

\* number of add_entity_node calls so far
EntitiesAdded(counter) == SumOver(counter, DOMAIN counter)

\* add_entity_node with the line `self.entity_counter[entity_text] += 1` left out
add_entity_node_no_increment(g, entity, entity_type, patent_id) ==
    IF "entity" \notin entity.keys
    THEN [nodes |-> g.nodes, counter |-> g.counter, node_id |-> <<>>, raised |-> TRUE]
    ELSE LET entity_text == Strip(Lower(entity.entity))
             node_id == NodeId(patent_id, entity_type, CounterGet(g.counter, entity_text))
             attrs == [label |-> entity_text,
                       type |-> entity_type,
                       patent_id |-> patent_id,
                       category |-> GetOr(entity, "category", ""),
                       position |-> GetOr(entity, "position", -1)]
         IN  [nodes |-> (node_id :> attrs) @@ g.nodes,
              counter |-> (entity_text :> CounterGet(g.counter, entity_text)) @@ g.counter,
              node_id |-> node_id,
              raised |-> FALSE]

\* g = [nodes, counter]; the result adds the node id and whether a KeyError was raised
add_entity_node(g, entity, entity_type, patent_id) ==
    IF "entity" \notin entity.keys
    THEN [nodes |-> g.nodes, counter |-> g.counter, node_id |-> <<>>, raised |-> TRUE]
    ELSE LET entity_text == Strip(Lower(entity.entity))
             node_id == NodeId(patent_id, entity_type, CounterGet(g.counter, entity_text))
             attrs == [label |-> entity_text,
                       type |-> entity_type,
                       patent_id |-> patent_id,
                       category |-> GetOr(entity, "category", ""),
                       position |-> GetOr(entity, "position", -1)]
         IN  [nodes |-> (node_id :> attrs) @@ g.nodes,
              counter |-> (entity_text :> (CounterGet(g.counter, entity_text) + 1)) @@ g.counter,
              node_id |-> node_id,
              raised |-> FALSE]

\* the dict `nodes` kept from the previous call instead of being created anew
KeptLocalNodes == last_build.local

\* nodes = {'R': [], 'F': [], 'S': [], 'L': []}
NewLocalNodes == [k \in KindSet |-> <<>>]

\* the first loop of extract_relations, from entity j of kind number i on;
\* st = [nodes, counter, local, raised], local being the dict `nodes` of the code
RECURSIVE AddAllNodes(_, _, _, _, _)
AddAllNodes(st, entities, patent_id, i, j) ==
    IF i > Len(Kinds) THEN st
    ELSE LET k == Kinds[i] IN
         IF k \notin entities.keys THEN [st EXCEPT !.raised = TRUE]
         ELSE IF j > Len(entities[k]) THEN AddAllNodes(st, entities, patent_id, i + 1, 1)
         ELSE LET entity == entities[k][j]
                  r == add_entity_node(st, entity, k, patent_id)
              IN  IF r.raised THEN [st EXCEPT !.raised = TRUE]
                  ELSE AddAllNodes(
                         [nodes |-> r.nodes, counter |-> r.counter, raised |-> FALSE,
                          local |-> [st.local EXCEPT ![k] = Append(@,
                                       [id |-> r.node_id,
                                        position |-> GetOr(entity, "position", -1),
                                        entity |-> entity])]],
                         entities, patent_id, i, j + 1)

\* one proximity rule: every pair of the two kinds closer than dist
ProximityRule(local, src, dst, dist, rel) ==
    {<<local[src][p[1]].id, local[dst][p[2]].id, rel>> :
        p \in {q \in (1..Len(local[src])) \X (1..Len(local[dst])) :
                 Abs(local[src][q[1]].position - local[dst][q[2]].position) < dist}}

\* the relations list with the tuples of REGLA 4 appended target first
ProximityRelationsLocationFirst(local) ==
    ProximityRule(local, "R", "F", ADDRESSES_DIST, "addresses")
    \cup ProximityRule(local, "F", "S", USES_DIST, "uses")
    \cup ProximityRule(local, "S", "L", LOCATED_AT_DIST, "located_at")
    \cup ProximityRule(local, "L", "F", OCCURS_AT_DIST, "occurs_at")

\* the relations list, as the set of its tuples
ProximityRelations(local) ==
    ProximityRule(local, "R", "F", ADDRESSES_DIST, "addresses")
    \cup ProximityRule(local, "F", "S", USES_DIST, "uses")
    \cup ProximityRule(local, "S", "L", LOCATED_AT_DIST, "located_at")
    \cup ProximityRule(local, "F", "L", OCCURS_AT_DIST, "occurs_at")

extract_relations(g, entities, patent_id) ==
    LET st == AddAllNodes([nodes |-> g.nodes, counter |-> g.counter,
                           local |-> NewLocalNodes, raised |-> FALSE],
                          entities, patent_id, 1, 1)
    IN  [nodes |-> st.nodes, counter |-> st.counter, local |-> st.local,
         raised |-> st.raised,
         relations |-> IF st.raised THEN {} ELSE ProximityRelations(st.local)]

\* the calls of add_entity_node a build made, in order
LocalLog(local) ==
    LET entries(k) == [i \in 1..Len(local[k]) |->
                         [label |-> Strip(Lower(local[k][i].entity.entity)),
                          id |-> local[k][i].id]]
    IN  entries("R") \o entries("F") \o entries("S") \o entries("L")

\* graph.add_edge for every relation: one edge per ordered pair, attribute overwritten
AddEdges(edges, relations) ==
    [e \in DOMAIN edges \cup {<<r[1], r[2]>> : r \in relations} |->
        IF \E r \in relations : <<r[1], r[2]>> = e
        THEN (CHOOSE r \in relations : <<r[1], r[2]>> = e)[3]
        ELSE edges[e]]

NoStats == [patent_id |-> "", nodes |-> 0, edges |-> 0]

\* g = [nodes, edges, counter], rfsl_data the loaded file
build_graph_from_rfsl(g, rfsl_data) ==
    LET unchanged == [nodes |-> g.nodes, edges |-> g.edges, counter |-> g.counter,
                      local |-> [k \in KindSet |-> <<>>], relations |-> {},
                      raised |-> TRUE, stats |-> NoStats]
    IN  IF "patent_id" \notin rfsl_data.keys THEN unchanged
        ELSE IF "entities" \notin rfsl_data.keys THEN unchanged
        ELSE LET r == extract_relations(g, rfsl_data.entities, rfsl_data.patent_id)
                 edges == IF r.raised THEN g.edges ELSE AddEdges(g.edges, r.relations)
             IN  [nodes |-> r.nodes, edges |-> edges, counter |-> r.counter,
                  local |-> r.local, relations |-> r.relations, raised |-> r.raised,
                  stats |-> IF r.raised THEN NoStats
                            ELSE [patent_id |-> rfsl_data.patent_id,
                                  nodes |-> Cardinality(DOMAIN r.nodes),
                                  edges |-> Cardinality(DOMAIN edges)]]

\* an exception of a file that leaves the loop instead of being caught in it
FileExceptionAborts == "crashed"

\* where the loop of build_pkg_from_all_patents stands after an exception of a file
AfterFileException == "loop"

\* get_statistics with `= 1` in place of `+= 1`
get_statistics_uncounted(nodes, edges) ==
    [total_nodes |-> Cardinality(DOMAIN nodes),
     total_edges |-> Cardinality(DOMAIN edges),
     nodes_by_type |-> [t \in {nodes[n].type : n \in DOMAIN nodes} |-> 1],
     edges_by_relation |-> [r \in {edges[e] : e \in DOMAIN edges} |-> 1]]

\* the two defaultdict(int) hold the keys counted, each with its count
get_statistics(nodes, edges) ==
    [total_nodes |-> Cardinality(DOMAIN nodes),
     total_edges |-> Cardinality(DOMAIN edges),
     nodes_by_type |-> [t \in {nodes[n].type : n \in DOMAIN nodes} |->
                          Cardinality({n \in DOMAIN nodes : nodes[n].type = t})],
     edges_by_relation |-> [r \in {edges[e] : e \in DOMAIN edges} |->
                              Cardinality({e \in DOMAIN edges : edges[e] = r})]]

NoStatistics == [files_read |-> -1, stats |-> get_statistics(<<>>, <<>>)]

NoBuild == [keys |-> {}, entity_keys |-> {}, patent_id |-> "", raised |-> FALSE,
            local |-> [k \in KindSet |-> <<>>], relations |-> {}, nodes_before |-> 0]

PkgInit ==
    /\ graph_nodes = <<>>
    /\ graph_edges = <<>>
    /\ entity_counter = <<>>
    /\ patent_stats = <<>>
    /\ file_errors = 0
    /\ files_read = 0
    /\ pkg_pc = "loop"
    /\ last_build = NoBuild
    /\ node_log = <<>>
    /\ global_stats = NoStatistics

\* Patent ids are interchangeable: the files name them in the order of their
\* first appearance, so a file names a patent already built or the next id.
NamablePatents ==
    LET seen == {patent_stats[i].patent_id : i \in 1..Len(patent_stats)}
    IN  {PatentIds[i] : i \in {j \in 1..Len(PatentIds) : j <= Cardinality(seen) + 1}}

\* one iteration of `for rfsl_file in rfsl_files`, the try/except included
ProcessFile ==
    /\ pkg_pc = "loop"
    /\ files_read < MaxFiles
    /\ \E rfsl_data \in RfslRecords(NamablePatents,
                                     MaxEntities - EntitiesAdded(entity_counter)) :
        \E r \in {build_graph_from_rfsl(
                    [nodes |-> graph_nodes, edges |-> graph_edges,
                     counter |-> entity_counter], rfsl_data)} :
            /\ graph_nodes' = r.nodes
            /\ graph_edges' = r.edges
            /\ entity_counter' = r.counter
            /\ patent_stats' = IF r.raised THEN patent_stats
                               ELSE Append(patent_stats, r.stats)
            /\ file_errors' = IF r.raised THEN file_errors + 1 ELSE file_errors
            /\ pkg_pc' = IF r.raised THEN AfterFileException ELSE "loop"
            /\ last_build' = [keys |-> rfsl_data.keys,
                              entity_keys |-> rfsl_data.entities.keys,
                              patent_id |-> rfsl_data.patent_id,
                              raised |-> r.raised,
                              local |-> r.local, relations |-> r.relations,
                              nodes_before |-> Cardinality(DOMAIN graph_nodes)]
            /\ node_log' = node_log \o LocalLog(r.local)
    /\ files_read' = files_read + 1
    /\ global_stats' = global_stats
    /\ UNCHANGED <<batch_vars, ext_vars, sim_vars, tax_vars, km_vars>>

\* builder.get_statistics(), on the graph as the files read so far left it
GetStatistics ==
    /\ global_stats.files_read # files_read
    /\ global_stats' = [files_read |-> files_read,
                        stats |-> get_statistics(graph_nodes, graph_edges)]
    /\ UNCHANGED <<graph_nodes, graph_edges, entity_counter, patent_stats, file_errors,
                   files_read, pkg_pc, last_build, node_log>>
    /\ UNCHANGED <<batch_vars, ext_vars, sim_vars, tax_vars, km_vars>>

(***************************************************************************)
(* BatchPatentClassifier and PatentCategorizer.analyze_patent              *)
(***************************************************************************)
BatchIds == {"US1", "US2"}

\* what the cache file of a patent holds: nothing, the data of a patent, a
\* falsy JSON value, a JSON value categorize_patent cannot read (not a dict,
\* or code lists that are not lists of strings), or text that is not JSON
CacheKinds == {"absent", "data", "empty", "unusable", "corrupt"}

\* requests.get: status 200, another status, or an exception
NetOutcomes == {"ok", "status", "error"}

\* the result is [raised, data, cache]; data "none" is None
download_patent(c, patent_id, net) ==
    IF c[patent_id] # "absent"
    THEN [raised |-> (c[patent_id] = "corrupt"),
          data |-> IF c[patent_id] = "corrupt" THEN "none" ELSE c[patent_id],
          cache |-> c]
    ELSE IF net = "ok"
         THEN [raised |-> FALSE, data |-> "data",
               cache |-> [c EXCEPT ![patent_id] = "data"]]
         ELSE [raised |-> FALSE, data |-> "none", cache |-> c]

NoResult == [patent_id |-> "", analysis_date |-> 0]

\* the result is [outcome, result, cache] with outcome "result" (a dict),
\* "none" (None returned) or "raised"
analyze_patent(c, patent_id, net, now) ==
    LET d == download_patent(c, patent_id, net)
    IN  IF d.raised
        THEN [outcome |-> "raised", result |-> NoResult, cache |-> d.cache]
        ELSE IF d.data \in {"none", "empty"}
        THEN [outcome |-> "none", result |-> NoResult, cache |-> d.cache]
        ELSE IF d.data = "unusable"
        THEN [outcome |-> "raised", result |-> NoResult, cache |-> d.cache]
        ELSE [outcome |-> "result",
              result |-> [patent_id |-> patent_id, analysis_date |-> now],
              cache |-> d.cache]

\* the try block of the loop with an except branch that does not count the failure
process_iteration_uncounted(st, a) ==
    IF a.outcome = "result"
    THEN [results |-> Append(st.results, a.result),
          successful |-> st.successful + 1, failed |-> st.failed]
    ELSE IF a.outcome = "none"
    THEN [results |-> st.results, successful |-> st.successful,
          failed |-> st.failed + 1]
    ELSE [results |-> st.results, successful |-> st.successful,
          failed |-> st.failed]

\* the try/except of one loop iteration; st = [results, successful, failed],
\* a the outcome of analyze_patent
process_iteration(st, a) ==
    IF a.outcome = "result"
    THEN [results |-> Append(st.results, a.result),
          successful |-> st.successful + 1, failed |-> st.failed]
    ELSE IF a.outcome = "none"
    THEN [results |-> st.results, successful |-> st.successful,
          failed |-> st.failed + 1]
    ELSE [results |-> st.results, successful |-> st.successful,
          failed |-> st.failed + 1]

RECURSIVE ListsUpTo(_, _)
\* the sequences over S of length at most n
ListsUpTo(S, n) ==
    IF n = 0 THEN {<<>>}
    ELSE LET shorter == ListsUpTo(S, n - 1)
         IN  shorter \cup {Append(l, x) : l \in shorter, x \in S}

IdLists == ListsUpTo(BatchIds, MaxBatch)

BatchIdle ==
    /\ patent_ids = <<>>
    /\ results = <<>>
    /\ batch_idx = 0
    /\ successful = 0
    /\ failed = 0
    /\ batch_pc = "idle"
    /\ returned = <<>>
    /\ call_log = <<>>
    /\ analyses = 0
    /\ calls = 0

\* BatchPatentClassifier(): empty results and ids; the cache directory may
\* hold files of earlier runs
BatchInit ==
    /\ BatchIdle
    /\ cache \in [BatchIds -> CacheKinds]

load_patents_from_list ==
    /\ batch_pc \in {"idle", "returned"}
    /\ calls < MaxCalls
    /\ \E ids \in IdLists : patent_ids' = ids
    /\ batch_pc' = "idle"
    /\ UNCHANGED <<results, batch_idx, successful, failed, returned, call_log,
                   cache, analyses, calls>>

\* process_all up to the loop; with no ids it returns [] at once.  The
\* counters are locals: they hold 0 until the loop counts.
ProcessAllEnter ==
    /\ batch_pc \in {"idle", "returned"}
    /\ calls < MaxCalls
    /\ calls' = calls + 1
    /\ call_log' = <<>>
    /\ batch_idx' = 0
    /\ successful' = 0
    /\ failed' = 0
    /\ IF patent_ids = <<>>
       THEN /\ returned' = <<>>
            /\ batch_pc' = "returned"
            /\ UNCHANGED results
       ELSE /\ results' = <<>>
            /\ batch_pc' = "loop"
            /\ UNCHANGED returned
    /\ UNCHANGED <<patent_ids, cache, analyses>>

\* one iteration of `for idx, patent_id in enumerate(self.patent_ids, 1)`
ProcessOne ==
    /\ batch_pc = "loop"
    /\ batch_idx < Len(patent_ids)
    /\ \E net \in NetOutcomes :
        \E a \in {analyze_patent(cache, patent_ids[batch_idx + 1], net, analyses + 1)} :
        \E st \in {process_iteration([results |-> results, successful |-> successful,
                                       failed |-> failed], a)} :
            /\ results' = st.results
            /\ successful' = st.successful
            /\ failed' = st.failed
            /\ cache' = a.cache
            /\ call_log' = Append(call_log,
                                  [patent_id |-> patent_ids[batch_idx + 1],
                                   outcome |-> a.outcome, result |-> a.result])
    /\ analyses' = analyses + 1
    /\ batch_idx' = batch_idx + 1
    /\ UNCHANGED <<patent_ids, batch_pc, returned, calls>>

\* the end of the loop: return self.results
ProcessAllReturn ==
    /\ batch_pc = "loop"
    /\ batch_idx = Len(patent_ids)
    /\ returned' = results
    /\ batch_pc' = "returned"
    /\ UNCHANGED <<patent_ids, results, batch_idx, successful, failed, call_log,
                   cache, analyses, calls>>

(***************************************************************************)
(* Regular expressions (module re), as far as the extractor uses them.     *)
(* A pattern is a tree of nodes.  Ends gives the ends of the matches of a  *)
(* node from a position, in the order in which backtracking tries them,    *)
(* each with the span of group 1; the first one is the match re reports.   *)
(***************************************************************************)
Digits == {"0", "1", "2", "3", "4", "5", "6", "7", "8", "9"}

\* \w
WordChars ==
    {UpperLetters[i] : i \in 1..Len(UpperLetters)}
    \cup {LowerLetters[i] : i \in 1..Len(LowerLetters)} \cup Digits \cup {"_"}

RStr(s) == [t |-> "str", s |-> s]
RSet(cs) == [t |-> "set", cs |-> cs]
RAny == [t |-> "any"]
RWord == [t |-> "word"]
RSpace == [t |-> "space"]
RWb == [t |-> "wb"]
RSeq(xs) == [t |-> "seq", xs |-> xs]
RAlt(xs) == [t |-> "alt", xs |-> xs]
\* hi = -1: no upper limit; greedy FALSE: the lazy repeat {lo,hi}?
RRep(x, lo, hi, greedy) == [t |-> "rep", x |-> x, lo |-> lo, hi |-> hi, greedy |-> greedy]
\* the capturing group (every pattern of the extractor has at most one)
RGrp(x) == [t |-> "grp", x |-> x]

NoGroup == <<-1, -1>>

\* re.IGNORECASE when ic
SameChar(a, b, ic) == IF ic THEN LowerChar(a) = LowerChar(b) ELSE a = b

\* \b at pos
AtWordBoundary(text, pos) ==
    LET before == pos > 0 /\ text[pos] \in WordChars
        after == pos < Len(text) /\ text[pos + 1] \in WordChars
    IN  before # after

\* the elements of rs at the indices idx, in order
SubSeqAt(rs, idx) ==
    [k \in 1..Cardinality(idx) |->
        rs[CHOOSE i \in idx : Cardinality({j \in idx : j < i}) = k - 1]]

\* of the ends that repeat, backtracking only ever uses the first
KeepFirst(rs) ==
    SubSeqAt(rs, {i \in 1..Len(rs) : \A j \in 1..(i - 1) : rs[j].e # rs[i].e})

RECURSIVE Ends(_, _, _, _, _)
RECURSIVE SeqEnds(_, _, _, _, _, _)
RECURSIVE SeqFrom(_, _, _, _, _, _)
RECURSIVE AltEnds(_, _, _, _, _, _)
RECURSIVE RepEnds(_, _, _, _, _, _, _, _)
RECURSIVE RepFrom(_, _, _, _, _, _, _, _, _)

One(ok, e, g) == IF ok THEN << [e |-> e, g |-> g] >> ELSE << >>

Ends(node, text, pos, g, ic) ==
    CASE node.t = "str" ->
           One(/\ pos + Len(node.s) <= Len(text)
               /\ \A i \in 1..Len(node.s) : SameChar(text[pos + i], node.s[i], ic),
               pos + Len(node.s), g)
      [] node.t = "set" ->
           One(pos < Len(text) /\ \E c \in node.cs : SameChar(text[pos + 1], c, ic),
               pos + 1, g)
      [] node.t = "any" -> One(pos < Len(text) /\ text[pos + 1] # "\n", pos + 1, g)
      [] node.t = "word" -> One(pos < Len(text) /\ text[pos + 1] \in WordChars, pos + 1, g)
      [] node.t = "space" -> One(pos < Len(text) /\ text[pos + 1] \in Whitespace, pos + 1, g)
      [] node.t = "wb" -> One(AtWordBoundary(text, pos), pos, g)
      [] node.t = "seq" -> SeqEnds(node.xs, 1, text, pos, g, ic)
      [] node.t = "alt" -> AltEnds(node.xs, 1, text, pos, g, ic)
      [] node.t = "rep" ->
           RepEnds(node.x, node.lo, node.hi, node.greedy, text, pos, g, ic)
      [] node.t = "grp" ->
           LET rs == Ends(node.x, text, pos, g, ic)
           IN  [i \in 1..Len(rs) |-> [e |-> rs[i].e, g |-> <<pos, rs[i].e>>]]

\* the nodes xs[k..] one after the other
SeqEnds(xs, k, text, pos, g, ic) ==
    IF k > Len(xs) THEN << [e |-> pos, g |-> g] >>
    ELSE SeqFrom(Ends(xs[k], text, pos, g, ic), 1, xs, k + 1, text, ic)

SeqFrom(rs, i, xs, k, text, ic) ==
    IF i > Len(rs) THEN << >>
    ELSE SeqEnds(xs, k, text, rs[i].e, rs[i].g, ic)
         \o SeqFrom(rs, i + 1, xs, k, text, ic)

\* the alternatives xs[k..], the earlier first
AltEnds(xs, k, text, pos, g, ic) ==
    IF k > Len(xs) THEN << >>
    ELSE Ends(xs[k], text, pos, g, ic) \o AltEnds(xs, k + 1, text, pos, g, ic)

\* the nodes that match exactly one character
CharNodes == {"set", "any", "word", "space"}

\* how many characters from pos on the one-character node x matches in a row,
\* at most hi of them (hi = -1: no upper limit)
RunLength(x, hi, text, pos, ic) ==
    LET limit == IF hi < 0 \/ hi > Len(text) - pos THEN Len(text) - pos ELSE hi
    IN  CHOOSE n \in 0..limit :
            /\ \A j \in 0..(n - 1) : Ends(x, text, pos + j, NoGroup, ic) # << >>
            /\ n = limit \/ Ends(x, text, pos + n, NoGroup, ic) = << >>

\* x{lo,hi} of a one-character node: every count from lo to the run length,
\* the longest first when greedy, the shortest first when lazy
RunEnds(x, lo, hi, greedy, text, pos, g, ic) ==
    LET n == RunLength(x, hi, text, pos, ic)
    IN  IF n < lo THEN << >>
        ELSE [i \in 1..(n - lo + 1) |->
                [e |-> IF greedy THEN pos + n - (i - 1) ELSE pos + lo + (i - 1),
                 g |-> g]]

\* x{lo,hi}: a greedy repeat tries one more x first, a lazy one tries to stop first
RepEnds(x, lo, hi, greedy, text, pos, g, ic) ==
    IF x.t \in CharNodes THEN RunEnds(x, lo, hi, greedy, text, pos, g, ic)
    ELSE LET stop == One(lo = 0, pos, g)
             more == IF hi = 0 THEN << >>
                     ELSE RepFrom(Ends(x, text, pos, g, ic), 1, x,
                                  IF lo > 0 THEN lo - 1 ELSE 0,
                                  IF hi > 0 THEN hi - 1 ELSE hi,
                                  greedy, text, pos, ic)
         IN  KeepFirst(IF greedy THEN more \o stop ELSE stop \o more)

RepFrom(rs, i, x, lo, hi, greedy, text, pos, ic) ==
    IF i > Len(rs) THEN << >>
    ELSE (IF rs[i].e = pos THEN << >>
          ELSE RepEnds(x, lo, hi, greedy, text, rs[i].e, rs[i].g, ic))
         \o RepFrom(rs, i + 1, x, lo, hi, greedy, text, pos, ic)

RECURSIVE FindFrom(_, _, _, _)
RECURSIVE FoundAt(_, _, _, _, _)
\* re.finditer from pos on: the matches left to right, each search starting
\* where the previous match ended
FindFrom(pattern, text, pos, ic) ==
    IF pos > Len(text) THEN << >>
    ELSE FoundAt(Ends(pattern, text, pos, NoGroup, ic), pattern, text, pos, ic)

\* rs = the ends of the matches at pos: the first one is the match, and the
\* search goes on at its end (one further after an empty match)
FoundAt(rs, pattern, text, pos, ic) ==
    IF rs = << >> THEN FindFrom(pattern, text, pos + 1, ic)
    ELSE << [start |-> pos, end |-> rs[1].e,
             gstart |-> rs[1].g[1], gend |-> rs[1].g[2]] >>
         \o FindFrom(pattern, text, IF rs[1].e > pos THEN rs[1].e ELSE pos + 1, ic)

\* re.finditer(pattern, text, re.IGNORECASE if ic)
finditer(pattern, text, ic) == FindFrom(pattern, text, 0, ic)

\* match.group() and match.group(1)
Group0(text, m) == Slice(text, m.start, m.end)
Group1(text, m) == Slice(text, m.gstart, m.gend)

\* sub in text
Contains(text, sub) ==
    \E p \in 0..(Len(text) - Len(sub)) : \A i \in 1..Len(sub) : text[p + i] = sub[i]

RECURSIVE ConcatAll(_)
\* the sequences of ss one after the other
ConcatAll(ss) == IF Len(ss) = 0 THEN << >> ELSE Head(ss) \o ConcatAll(Tail(ss))

RECURSIVE JoinSpace(_)
\* " ".join(strs)
JoinSpace(strs) ==
    IF Len(strs) = 0 THEN << >>
    ELSE IF Len(strs) = 1 THEN strs[1]
    ELSE strs[1] \o <<" ">> \o JoinSpace(Tail(strs))

\* the lexicon of domain_dictionaries.py, cut to entries the texts of the model
\* can contain; a dict is the sequence of its items in insertion order
STRUCTURES ==
    << [category |-> "blade", variants |-> << <<"a", "s", "p", "a">> >>],
       [category |-> "spar", variants |-> << <<"s", "p", "a", "r">> >>] >>

FUNCTION_VERBS ==
    << [category |-> "reduce", verbs |-> << <<"r", "e", "d", "u", "c", "e">> >>] >>

FUNCTION_NOUNS == << <<"d", "r", "a", "g">> >>

LOCATION_TERMS ==
    << [category |-> "vertical", terms |-> << <<"t", "o", "p">> >>] >>

REQUIREMENT_PATTERNS ==
    << [req_type |-> <<"r", "e", "d", "u", "c", "e">>, patterns |-> << RSeq(<<RStr(<<"r", "e",
        "d", "u", "c", "e">>), RRep(RAlt(<<RStr(<<"s">>), RStr(<<"d">>), RStr(<<"i", "n",
        "g">>)>>), 0, 1, TRUE), RRep(RSpace, 1, -1, TRUE), RRep(RSeq(<<RStr(<<"t", "h", "e">>),
        RRep(RSpace, 1, -1, TRUE)>>), 0, 1, TRUE), RGrp(RSeq(<<RRep(RWord, 1, -1, TRUE),
        RRep(RSeq(<<RRep(RSpace, 1, -1, TRUE), RRep(RWord, 1, -1, TRUE)>>), 0, 3, TRUE)>>))>>),
          RSeq(<<RStr(<<"r", "e", "d", "u", "c", "i", "r">>), RRep(RSpace, 1, -1, TRUE),
              RRep(RAlt(<<RStr(<<"l", "a">>), RStr(<<"e", "l">>), RStr(<<"l", "o", "s">>),
              RStr(<<"l", "a", "s">>)>>), 0, 1, TRUE), RRep(RSpace, 0, -1, TRUE),
              RGrp(RSeq(<<RRep(RWord, 1, -1, TRUE), RRep(RSeq(<<RRep(RSpace, 1, -1, TRUE),
              RRep(RWord, 1, -1, TRUE)>>), 0, 3, TRUE)>>))>>) >>] >>

TARGET_REQUIREMENTS ==
    << [req_category |-> <<"e", "f", "f", "i", "c", "i", "e", "n", "c", "y">>,
        keywords |-> << <<"e", "f", "f", "i", "c", "i", "e", "n", "c", "y">> >>] >>

\* rf"\b{re.escape(verb)}\s+(?:\w+\s+){{0,3}}?{re.escape(noun)}\b"
VerbNounPattern(verb, noun) ==
    RSeq(<<RWb, RStr(verb), RRep(RSpace, 1, -1, TRUE), RRep(RSeq(<<RRep(RWord, 1, -1, TRUE),
        RRep(RSpace, 1, -1, TRUE)>>), 0, 3, FALSE), RStr(noun), RWb>>)

\* rf"\b{re.escape(verb)}\s+(?:the\s+|a\s+)?(\w+(?:\s+\w+){{0,2}})"
VerbFlexiblePattern(verb) ==
    RSeq(<<RWb, RStr(verb), RRep(RSpace, 1, -1, TRUE), RRep(RAlt(<<RSeq(<<RStr(<<"t", "h", "e">>),
        RRep(RSpace, 1, -1, TRUE)>>), RSeq(<<RStr(<<"a">>), RRep(RSpace, 1, -1, TRUE)>>)>>), 0, 1,
        TRUE), RGrp(RSeq(<<RRep(RWord, 1, -1, TRUE), RRep(RSeq(<<RRep(RSpace, 1, -1, TRUE),
        RRep(RWord, 1, -1, TRUE)>>), 0, 2, TRUE)>>))>>)

functional_phrases ==
    << RSeq(<<RStr(<<"c", "o", "n", "f", "i", "g", "u", "r", "e", "d", " ", "t", "o">>),
        RRep(RSpace, 1, -1, TRUE), RGrp(RSeq(<<RRep(RWord, 1, -1, TRUE), RRep(RSeq(<<RRep(RSpace,
        1, -1, TRUE), RRep(RWord, 1, -1, TRUE)>>), 0, 2, TRUE)>>))>>),
       RSeq(<<RStr(<<"a", "d", "a", "p", "t", "e", "d", " ", "t", "o">>), RRep(RSpace, 1, -1,
           TRUE), RGrp(RSeq(<<RRep(RWord, 1, -1, TRUE), RRep(RSeq(<<RRep(RSpace, 1, -1, TRUE),
           RRep(RWord, 1, -1, TRUE)>>), 0, 2, TRUE)>>))>>),
       RSeq(<<RStr(<<"d", "e", "s", "i", "g", "n", "e", "d", " ", "t", "o">>), RRep(RSpace, 1, -1,
           TRUE), RGrp(RSeq(<<RRep(RWord, 1, -1, TRUE), RRep(RSeq(<<RRep(RSpace, 1, -1, TRUE),
           RRep(RWord, 1, -1, TRUE)>>), 0, 2, TRUE)>>))>>),
       RSeq(<<RStr(<<"o", "p", "e", "r", "a", "b", "l", "e", " ", "t", "o">>), RRep(RSpace, 1, -1,
           TRUE), RGrp(RSeq(<<RRep(RWord, 1, -1, TRUE), RRep(RSeq(<<RRep(RSpace, 1, -1, TRUE),
           RRep(RWord, 1, -1, TRUE)>>), 0, 2, TRUE)>>))>>),
       RSeq(<<RStr(<<"c", "a", "p", "a", "b", "l", "e", " ", "o", "f">>), RRep(RSpace, 1, -1,
           TRUE), RGrp(RSeq(<<RRep(RWord, 1, -1, TRUE), RRep(RSeq(<<RRep(RSpace, 1, -1, TRUE),
           RRep(RWord, 1, -1, TRUE)>>), 0, 2, TRUE)>>))>>),
       RSeq(<<RStr(<<"f", "o", "r">>), RRep(RSpace, 1, -1, TRUE), RGrp(RSeq(<<RRep(RWord, 1, -1,
           TRUE), RStr(<<"i", "n", "g">>), RRep(RSeq(<<RRep(RSpace, 1, -1, TRUE), RRep(RWord, 1,
           -1, TRUE)>>), 0, 2, TRUE)>>))>>) >>

requirement_intro_patterns ==
    << RSeq(<<RRep(RAlt(<<RStr(<<"t", "h", "e", " ">>), RStr(<<"a", " ">>), RStr(<<"a", "n",
        " ">>)>>), 0, 1, TRUE), RRep(RStr(<<"p", "r", "e", "s", "e", "n", "t", " ">>), 0, 1,
        TRUE), RAlt(<<RStr(<<"i", "n", "v", "e", "n", "t", "i", "o", "n">>), RStr(<<"d", "i", "s",
        "c", "l", "o", "s", "u", "r", "e">>), RStr(<<"m", "e", "t", "h", "o", "d">>), RStr(<<"s",
        "y", "s", "t", "e", "m">>), RStr(<<"a", "p", "p", "a", "r", "a", "t", "u", "s">>)>>),
        RStr(<<" ">>), RAlt(<<RStr(<<"p", "r", "o", "v", "i", "d", "e", "s">>), RStr(<<"r", "e",
        "l", "a", "t", "e", "s", " ", "t", "o">>), RStr(<<"i", "s", " ", "d", "i", "r", "e", "c",
        "t", "e", "d", " ", "t", "o">>), RStr(<<"c", "o", "n", "c", "e", "r", "n", "s">>),
        RStr(<<"a", "d", "d", "r", "e", "s", "s", "e", "s">>), RStr(<<"d", "e", "s", "c", "r",
        "i", "b", "e", "s">>), RStr(<<"i", "n", "c", "l", "u", "d", "e", "s">>)>>), RRep(RSpace,
        1, -1, TRUE), RGrp(RRep(RAny, 15, 120, FALSE)), RSet({".", ",", ";"})>>),
       RSeq(<<RRep(RAlt(<<RStr(<<"t", "h", "e", " ">>), RStr(<<"a", " ">>), RStr(<<"a", "n",
           " ">>)>>), 0, 1, TRUE), RRep(RAlt(<<RStr(<<"p", "r", "i", "m", "a", "r", "y", " ">>),
           RStr(<<"m", "a", "i", "n", " ">>)>>), 0, 1, TRUE), RAlt(<<RStr(<<"o", "b", "j", "e",
           "c", "t">>), RStr(<<"o", "b", "j", "e", "c", "t", "i", "v", "e">>), RStr(<<"p", "u",
           "r", "p", "o", "s", "e">>), RStr(<<"g", "o", "a", "l">>), RStr(<<"a", "i", "m">>)>>),
           RStr(<<" ">>), RAlt(<<RStr(<<"i", "s">>), RStr(<<"o", "f">>), RStr(<<"i", "n", "c",
           "l", "u", "d", "e", "s">>)>>), RRep(RSeq(<<RRep(RSpace, 1, -1, TRUE), RStr(<<"t",
           "o">>)>>), 0, 1, TRUE), RRep(RSpace, 1, -1, TRUE), RGrp(RRep(RAny, 15, 120, FALSE)),
           RSet({".", ",", ";"})>>),
       RSeq(<<RAlt(<<RStr(<<"i", "t", " ", "i", "s">>), RStr(<<"t", "h", "e", "r", "e", " ", "i",
           "s">>)>>), RStr(<<" ", "a">>), RAlt(<<RSeq(<<>>), RStr(<<"n">>)>>), RStr(<<" ">>),
           RAlt(<<RStr(<<"n", "e", "e", "d">>), RStr(<<"d", "e", "s", "i", "r", "e">>),
           RStr(<<"r", "e", "q", "u", "i", "r", "e", "m", "e", "n", "t">>)>>), RStr(<<" ">>),
           RAlt(<<RStr(<<"f", "o", "r">>), RStr(<<"t", "o">>)>>), RRep(RSpace, 1, -1, TRUE),
           RGrp(RRep(RAny, 15, 120, FALSE)), RSet({".", ",", ";"})>>),
       RSeq(<<RStr(<<"i", "n", " ", "o", "r", "d", "e", "r", " ", "t", "o">>), RRep(RSpace, 1, -1,
           TRUE), RGrp(RRep(RAny, 15, 100, FALSE)), RSet({".", ",", ";"})>>),
       RSeq(<<RStr(<<"s", "o", " ", "a", "s", " ", "t", "o">>), RRep(RSpace, 1, -1, TRUE),
           RGrp(RRep(RAny, 15, 100, FALSE)), RSet({".", ",", ";"})>>),
       RSeq(<<RStr(<<"c", "o", "n", "f", "i", "g", "u", "r", "e", "d", " ", "t", "o">>),
           RRep(RSpace, 1, -1, TRUE), RGrp(RRep(RAny, 15, 100, FALSE)), RSet({".", ",", ";"})>>),
       RSeq(<<RStr(<<"a", "d", "a", "p", "t", "e", "d", " ", "t", "o">>), RRep(RSpace, 1, -1,
           TRUE), RGrp(RRep(RAny, 15, 100, FALSE)), RSet({".", ",", ";"})>>),
       RSeq(<<RStr(<<"d", "e", "s", "i", "g", "n", "e", "d", " ", "t", "o">>), RRep(RSpace, 1, -1,
           TRUE), RGrp(RRep(RAny, 15, 100, FALSE)), RSet({".", ",", ";"})>>) >>

implicit_requirement_patterns ==
    << RSeq(<<RAlt(<<RStr(<<"m", "e", "t", "h", "o", "d">>), RStr(<<"s", "y", "s", "t", "e",
        "m">>), RStr(<<"a", "p", "p", "a", "r", "a", "t", "u", "s">>), RStr(<<"d", "e", "v", "i",
        "c", "e">>)>>), RStr(<<" ">>), RAlt(<<RStr(<<"f", "o", "r">>), RStr(<<"t", "o">>)>>),
        RRep(RSpace, 1, -1, TRUE), RGrp(RSeq(<<RRep(RWord, 1, -1, TRUE), RStr(<<"i", "n", "g">>),
        RRep(RSpace, 1, -1, TRUE), RRep(RAny, 10, 80, FALSE)>>)), RSet({".", ",", ";"})>>),
       RSeq(<<RAlt(<<RStr(<<"i", "n", "c", "l", "u", "d", "e", "s">>), RStr(<<"c", "o", "m", "p",
           "r", "i", "s", "e", "s">>), RStr(<<"h", "a", "s">>)>>), RRep(RSpace, 1, -1, TRUE),
           RGrp(RSeq(<<RRep(RWord, 1, -1, TRUE), RStr(<<"i", "n", "g">>), RRep(RSpace, 1, -1,
           TRUE), RRep(RAny, 10, 80, FALSE)>>)), RSet({".", ",", ";"})>>),
       RSeq(<<RAlt(<<RStr(<<"d", "e", "t", "e", "r", "m", "i", "n", "i", "n", "g">>), RStr(<<"m",
           "e", "a", "s", "u", "r", "i", "n", "g">>), RStr(<<"c", "o", "n", "t", "r", "o", "l",
           "l", "i", "n", "g">>), RStr(<<"p", "r", "o", "v", "i", "d", "i", "n", "g">>),
           RStr(<<"c", "a", "l", "c", "u", "l", "a", "t", "i", "n", "g">>), RStr(<<"m", "o", "n",
           "i", "t", "o", "r", "i", "n", "g">>), RStr(<<"a", "d", "j", "u", "s", "t", "i", "n",
           "g">>), RStr(<<"o", "p", "t", "i", "m", "i", "z", "i", "n", "g">>)>>), RRep(RSpace, 1,
           -1, TRUE), RGrp(RRep(RAny, 10, 80, FALSE)), RSet({".", ",", ";"})>>) >>

improvement_keywords ==
    << <<"i", "m", "p", "r", "o", "v", "e">>,
       <<"i", "n", "c", "r", "e", "a", "s", "e">>,
       <<"r", "e", "d", "u", "c", "e">>,
       <<"m", "i", "n", "i", "m", "i", "z", "e">>,
       <<"m", "a", "x", "i", "m", "i", "z", "e">>,
       <<"e", "n", "h", "a", "n", "c", "e">>,
       <<"o", "p", "t", "i", "m", "i", "z", "e">>,
       <<"c", "o", "n", "t", "r", "o", "l">>,
       <<"p", "r", "e", "v", "e", "n", "t">>,
       <<"a", "v", "o", "i", "d">>,
       <<"e", "l", "i", "m", "i", "n", "a", "t", "e">>,
       <<"m", "i", "t", "i", "g", "a", "t", "e">> >>

\* rf"\b{keyword}\w*\s+(?:the\s+)?(.{{10,60}}?)(?:\.|,|;|\s+of|\s+by)"
ImprovementPattern(keyword) ==
    RSeq(<<RWb, RStr(keyword), RRep(RWord, 0, -1, TRUE), RRep(RSpace, 1, -1, TRUE),
        RRep(RSeq(<<RStr(<<"t", "h", "e">>), RRep(RSpace, 1, -1, TRUE)>>), 0, 1, TRUE),
        RGrp(RRep(RAny, 10, 60, FALSE)), RAlt(<<RStr(<<".">>), RStr(<<",">>), RStr(<<";">>),
        RSeq(<<RRep(RSpace, 1, -1, TRUE), RStr(<<"o", "f">>)>>), RSeq(<<RRep(RSpace, 1, -1, TRUE),
        RStr(<<"b", "y">>)>>)>>)>>)

\* rf".{{0,70}}{re.escape(keyword.lower())}.{{0,70}}"
KeywordContextPattern(keyword) ==
    RSeq(<<RRep(RAny, 0, 70, TRUE), RStr(keyword), RRep(RAny, 0, 70, TRUE)>>)

\* the verbs that make a keyword context a requirement
context_verbs ==
    << <<"i", "m", "p", "r", "o", "v", "e">>,
       <<"i", "n", "c", "r", "e", "a", "s", "e">>,
       <<"r", "e", "d", "u", "c", "e">>,
       <<"c", "o", "n", "t", "r", "o", "l">>,
       <<"o", "p", "t", "i", "m", "i", "z", "e">>,
       <<"e", "n", "h", "a", "n", "c", "e">> >>


(***************************************************************************)
(* RFSLExtractor (rfsl_extractor.py).                                      *)
(***************************************************************************)

\* the found list without the deduplication
KeepAllOccurrences(found) == found

\* `seen`/`unique_...`: the first occurrence of every (entity.lower(), position)
UniqueOccurrences(found) ==
    SubSeqAt(found,
             {i \in 1..Len(found) :
                \A j \in 1..(i - 1) :
                    <<Lower(found[j].entity), found[j].position>>
                        # <<Lower(found[i].entity), found[i].position>>})

\* re.finditer(re.escape(variant.lower()), text_lower), guarded by
\* `variant.lower() in text_lower`
VariantMatches(variant, text_lower) ==
    IF Contains(text_lower, Lower(variant))
    THEN finditer(RStr(Lower(variant)), text_lower, FALSE)
    ELSE << >>

\* the occurrences the matches of one variant (or term) of a category give
VariantOccurrences(matches, category, variant, type) ==
    [i \in 1..Len(matches) |->
        [entity |-> variant, type |-> type, category |-> category,
         position |-> matches[i].start]]

extract_structures(structures, text) ==
    LET text_lower == Lower(text)
        found_structures ==
            ConcatAll([c \in 1..Len(structures) |->
                ConcatAll([v \in 1..Len(structures[c].variants) |->
                    VariantOccurrences(VariantMatches(structures[c].variants[v], text_lower),
                                       structures[c].category,
                                       structures[c].variants[v], "Structure")])])
    IN  UniqueOccurrences(found_structures)

extract_locations(location_terms, text) ==
    LET text_lower == Lower(text)
        found_locations ==
            ConcatAll([c \in 1..Len(location_terms) |->
                ConcatAll([v \in 1..Len(location_terms[c].terms) |->
                    VariantOccurrences(VariantMatches(location_terms[c].terms[v], text_lower),
                                       location_terms[c].category,
                                       location_terms[c].terms[v], "Location")])])
    IN  UniqueOccurrences(found_locations)

\* the occurrences the matches of one pattern of extract_functions give
FunctionOccurrences(matches, text_lower, verb, noun, noun_is_group, method) ==
    [i \in 1..Len(matches) |->
        [entity |-> Strip(Group0(text_lower, matches[i])),
         type |-> "Function",
         verb |-> verb,
         noun |-> IF noun_is_group THEN Group1(text_lower, matches[i]) ELSE noun,
         position |-> matches[i].start,
         method |-> method]]

extract_functions(function_verbs, function_nouns, text) ==
    LET text_lower == Lower(text)
        verbs == ConcatAll([c \in 1..Len(function_verbs) |-> function_verbs[c].verbs])
        verb_noun ==
            ConcatAll([v \in 1..Len(verbs) |->
                ConcatAll([n \in 1..Len(function_nouns) |->
                    FunctionOccurrences(finditer(VerbNounPattern(verbs[v], function_nouns[n]),
                                                 text_lower, TRUE),
                                        text_lower, verbs[v], function_nouns[n],
                                        FALSE, "verb+noun")])])
        verb_flexible ==
            ConcatAll([v \in 1..Len(verbs) |->
                FunctionOccurrences(finditer(VerbFlexiblePattern(verbs[v]), text_lower, TRUE),
                                    text_lower, verbs[v], << >>, TRUE, "verb_flexible")])
        phrase_pattern ==
            ConcatAll([p \in 1..Len(functional_phrases) |->
                FunctionOccurrences(finditer(functional_phrases[p], text_lower, TRUE),
                                    text_lower,
                                    <<"f", "u", "n", "c", "t", "i", "o", "n", "a", "l",
                                      "_", "p", "h", "r", "a", "s", "e">>,
                                    << >>, TRUE, "phrase_pattern")])
    IN  UniqueOccurrences(verb_noun \o verb_flexible \o phrase_pattern)

\* the occurrences the matches of one pattern of extract_requirements give; the
\* entity is group 1 when from_group, else the whole match
RequirementOccurrences(matches, text, action, from_group, method) ==
    [i \in 1..Len(matches) |->
        [entity |-> Strip(IF from_group THEN Group1(text, matches[i])
                          ELSE Group0(text, matches[i])),
         type |-> "Requirement",
         action |-> action,
         position |-> matches[i].start,
         method |-> method]]

\* method 4: the entity is f"{keyword} {match.group(1).strip()}"
ImprovementOccurrences(matches, keyword, text) ==
    [i \in 1..Len(matches) |->
        [entity |-> keyword \o <<" ">> \o Strip(Group1(text, matches[i])),
         type |-> "Requirement",
         action |-> keyword,
         position |-> matches[i].start,
         method |-> "improvement_keyword"]]

\* any(verb in context for verb in [...])
HasContextVerb(found) ==
    \E v \in 1..Len(context_verbs) : Contains(found.entity, context_verbs[v])

\* method 5: the contexts of a target keyword that hold an action verb
KeywordContextOccurrences(matches, req_category, text_lower) ==
    SelectSeq([i \in 1..Len(matches) |->
                  [entity |-> Strip(Group0(text_lower, matches[i])),
                   type |-> "Requirement",
                   action |-> req_category,
                   position |-> matches[i].start,
                   method |-> "target_keyword_context"]],
              HasContextVerb)

\* re.finditer(keyword_pattern, text_lower), guarded by `keyword.lower() in text_lower`
KeywordContextMatches(keyword, text_lower) ==
    IF Contains(text_lower, Lower(keyword))
    THEN finditer(KeywordContextPattern(Lower(keyword)), text_lower, FALSE)
    ELSE << >>

\* the key of the deduplication of requirements: normalized[:40]
RequirementKey(r) == Slice(Strip(Lower(r.entity)), 0, REQUIREMENT_KEY_CHARS)

\* the deduplication keeping the last requirement of every key
LastRequirements(found) ==
    LET keys == [i \in 1..Len(found) |-> RequirementKey(found[i])]
    IN  SubSeqAt(found,
                 {i \in 1..Len(found) : \A j \in (i + 1)..Len(found) : keys[j] # keys[i]})

\* `seen_texts`/`unique_requirements`: the first requirement of every key
UniqueRequirements(found) ==
    LET keys == [i \in 1..Len(found) |-> RequirementKey(found[i])]
    IN  SubSeqAt(found,
                 {i \in 1..Len(found) : \A j \in 1..(i - 1) : keys[j] # keys[i]})

\* found_requirements before the deduplication: the candidates of the five
\* methods, in the order of the methods
found_requirements(requirement_patterns, target_requirements, text) ==
    LET text_lower == Lower(text)
        explicit_pattern ==
            ConcatAll([t \in 1..Len(requirement_patterns) |->
                ConcatAll([p \in 1..Len(requirement_patterns[t].patterns) |->
                    RequirementOccurrences(finditer(requirement_patterns[t].patterns[p],
                                                    text, TRUE),
                                           text,
                                           requirement_patterns[t].req_type,
                                           FALSE, "explicit_pattern")])])
        intro_pattern ==
            ConcatAll([p \in 1..Len(requirement_intro_patterns) |->
                RequirementOccurrences(finditer(requirement_intro_patterns[p], text, TRUE),
                                       text,
                                       <<"i", "n", "t", "r", "o", "_",
                                         "p", "h", "r", "a", "s", "e">>,
                                       TRUE, "intro_pattern")])
        implicit_pattern ==
            ConcatAll([p \in 1..Len(implicit_requirement_patterns) |->
                RequirementOccurrences(finditer(implicit_requirement_patterns[p],
                                                text, TRUE),
                                       text,
                                       <<"i", "m", "p", "l", "i", "c", "i", "t", "_",
                                         "a", "c", "t", "i", "o", "n">>,
                                       TRUE, "implicit_pattern")])
        improvement_keyword ==
            ConcatAll([k \in 1..Len(improvement_keywords) |->
                ImprovementOccurrences(finditer(ImprovementPattern(improvement_keywords[k]),
                                                text, TRUE),
                                       improvement_keywords[k], text)])
        target_keyword_context ==
            ConcatAll([c \in 1..Len(target_requirements) |->
                ConcatAll([k \in 1..Len(target_requirements[c].keywords) |->
                    KeywordContextOccurrences(
                        KeywordContextMatches(target_requirements[c].keywords[k], text_lower),
                        target_requirements[c].req_category, text_lower)])])
    IN  explicit_pattern \o intro_pattern \o implicit_pattern
        \o improvement_keyword \o target_keyword_context

extract_requirements(requirement_patterns, target_requirements, text) ==
    UniqueRequirements(found_requirements(requirement_patterns, target_requirements, text))

\* JSON values of a patent record: a string, null, a number, a list of strings
JStr(s) == [kind |-> "str", s |-> s, xs |-> << >>]
JNull == [kind |-> "null", s |-> << >>, xs |-> << >>]
JNumber == [kind |-> "number", s |-> << >>, xs |-> << >>]
JList(xs) == [kind |-> "list", s |-> << >>, xs |-> xs]

\* " ".join(v): a list of strings is joined, a string is joined character by
\* character, anything else raises TypeError
JoinValue(v) ==
    IF v.kind = "list" THEN [raised |-> FALSE, s |-> JoinSpace(v.xs)]
    ELSE IF v.kind = "str"
    THEN [raised |-> FALSE, s |-> JoinSpace([i \in 1..Len(v.s) |-> <<v.s[i]>>])]
    ELSE [raised |-> TRUE, s |-> << >>]

\* v[:n]: of a string or of a list; anything else raises TypeError
SliceValue(v, n) ==
    IF v.kind = "str" THEN [raised |-> FALSE, v |-> JStr(Slice(v.s, 0, n))]
    ELSE IF v.kind = "list" THEN [raised |-> FALSE, v |-> JList(Slice(v.xs, 0, n))]
    ELSE [raised |-> TRUE, v |-> v]

NoEntitiesFound == [R |-> << >>, F |-> << >>, S |-> << >>, L |-> << >>]

ExtractionRaised ==
    [raised |-> TRUE, patent_id |-> "", entities |-> NoEntitiesFound,
     stats |-> [total_entities |-> 0, R_count |-> 0, F_count |-> 0,
                S_count |-> 0, L_count |-> 0],
     text_sources |-> [title |-> 0, abstract |-> 0, claims |-> 0, description |-> 0]]

\* text_sources, or raised when a field has a type that join or the slice rejects
TextSources(patent_data) ==
    LET title == GetOr(patent_data, "title", JStr(<< >>))
        abstract == GetOr(patent_data, "abstract", JStr(<< >>))
        claims == JoinValue(GetOr(patent_data, "claims", JList(<< >>)))
        description == SliceValue(GetOr(patent_data, "description", JStr(<< >>)),
                                  DESCRIPTION_CHARS)
    IN  [raised |-> \/ claims.raised \/ description.raised
                    \/ title.kind # "str" \/ abstract.kind # "str"
                    \/ description.v.kind # "str",
         title |-> title.s, abstract |-> abstract.s, claims |-> claims.s,
         description |-> description.v.s]

\* " ".join(text_sources.values())
FullText(sources) ==
    JoinSpace(<<sources.title, sources.abstract, sources.claims, sources.description>>)

\* the dictionary extract_from_patent returns: the entities and their counts
ExtractionResult(patent_data, sources, entities) ==
    [raised |-> FALSE,
     patent_id |-> GetOr(patent_data, "patent_id", ""),
     entities |-> entities,
     stats |-> [total_entities |-> Len(entities.R) + Len(entities.F)
                                   + Len(entities.S) + Len(entities.L),
                R_count |-> Len(entities.R), F_count |-> Len(entities.F),
                S_count |-> Len(entities.S), L_count |-> Len(entities.L)],
     text_sources |-> [title |-> Len(sources.title), abstract |-> Len(sources.abstract),
                       claims |-> Len(sources.claims),
                       description |-> Len(sources.description)]]

\* the entities of the text sources, the requirements taken from the whole text
RequirementsOfFullText(lex, patent_data, sources) ==
    ExtractionResult(patent_data, sources,
        [R |-> extract_requirements(lex.requirement_patterns, lex.target_requirements,
                                    FullText(sources)),
         F |-> extract_functions(lex.function_verbs, lex.function_nouns, FullText(sources)),
         S |-> extract_structures(lex.structures, FullText(sources)),
         L |-> extract_locations(lex.location_terms, FullText(sources))])

\* the entities of the text sources: the requirements of abstract + " " + title,
\* the functions, structures and locations of the whole text
ExtractEntities(lex, patent_data, sources) ==
    ExtractionResult(patent_data, sources,
        [R |-> extract_requirements(lex.requirement_patterns, lex.target_requirements,
                                    sources.abstract \o <<" ">> \o sources.title),
         F |-> extract_functions(lex.function_verbs, lex.function_nouns, FullText(sources)),
         S |-> extract_structures(lex.structures, FullText(sources)),
         L |-> extract_locations(lex.location_terms, FullText(sources))])

\* the entities of a patent whose text sources were built
EntitiesOf(lex, patent_data, sources) ==
    IF sources.raised THEN ExtractionRaised ELSE ExtractEntities(lex, patent_data, sources)

\* lex = the tables of the extractor, patent_data = the patent record; the
\* result has raised = TRUE when a TypeError leaves the method
extract_from_patent(lex, patent_data) ==
    EntitiesOf(lex, patent_data, TextSources(patent_data))

\* the pieces of text the texts of the model are made of
TextChunks ==
    { <<"a", "s", "p", "a">>, <<"s", "p", "a">>, <<"S", "p", "a", "r">>, <<" ">>,
      <<"r", "e", "d", "u", "c", "e", " ", "d", "r", "a", "g">>, <<"t", "o", "p">> }

\* texts in which several methods of extract_requirements find a requirement
\* (the cut lexicon gives their requirements, not their functions)
RequirementTexts ==
    { <<"r","e","d","u","c","e"," ","e","f","f","i","c","i","e","n","c","y">>,
      <<"e","f","f","i","c","i","e","n","c","y"," ","R","e","d","u","c","e"," ","d","r","a","g">>,
      <<"i","n"," ","o","r","d","e","r"," ","t","o"," ","r","e","d","u","c","e"," ",
        "d","r","a","g"," ","e","f","f","i","c","i","e","n","c","y",",">>,
      <<"c","o","n","t","r","o","l","l","i","n","g"," ","r","e","d","u","c","e"," ",
        "d","r","a","g"," ","e","f","f","i","c","i","e","n","c","y",",">>,
      <<"r","e","d","u","c","e"," ","d","r","a","g"," ","a","e","r","o","d","y","n","a","m","i","c",
        " ","e","f","f","i","c","i","e","n","c","y"," ","c","o","n","s","i","d","e","r","a","b","l","y",
        " ","t","o","o">> }

Texts == {ConcatAll(cs) : cs \in ListsUpTo(TextChunks, MaxChunks)}

TitleValues ==
    {JNull, JStr(<< >>), JStr(<<"r", "e", "d", "u", "c", "e", " ", "d", "r", "a", "g">>)}

AbstractValues == {JNumber, JStr(<<"S", "p", "a", "r">>)}

ClaimsValues ==
    {JNull, JStr(<<"s", "p", "a">>),
     JList(<< <<"r", "e", "d", "u", "c", "e", " ", "d", "r", "a", "g">> >>)}

DescriptionValues ==
    {JNull, JStr(<<"r", "e", "d", "u", "c", "e", " ", "d", "r", "a", "g">>),
     JStr(<<"a", "s", "p", "a", "s", "p", "a">>)}

\* a field of a record: one of the values, or the key is missing
FieldChoices(values) ==
    {[present |-> TRUE, v |-> x] : x \in values} \cup {[present |-> FALSE, v |-> JNull]}

PatentRecord(t, a, c, d) ==
    [keys |-> {"patent_id"}
              \cup (IF t.present THEN {"title"} ELSE {})
              \cup (IF a.present THEN {"abstract"} ELSE {})
              \cup (IF c.present THEN {"claims"} ELSE {})
              \cup (IF d.present THEN {"description"} ELSE {}),
     patent_id |-> "P1", title |-> t.v, abstract |-> a.v, claims |-> c.v,
     description |-> d.v]

PatentRecords ==
    {PatentRecord(t, a, c, d) :
        t \in FieldChoices(TitleValues), a \in FieldChoices(AbstractValues),
        c \in FieldChoices(ClaimsValues), d \in FieldChoices(DescriptionValues)}

NoPatentData ==
    [keys |-> {}, patent_id |-> "", title |-> JNull, abstract |-> JNull,
     claims |-> JNull, description |-> JNull]

NoExtraction == [ExtractionRaised EXCEPT !.raised = FALSE]

\* self.structures ... self.target_requirements of RFSLExtractor.__init__
Lexicon ==
    [structures |-> STRUCTURES, function_verbs |-> FUNCTION_VERBS,
     function_nouns |-> FUNCTION_NOUNS, location_terms |-> LOCATION_TERMS,
     requirement_patterns |-> REQUIREMENT_PATTERNS,
     target_requirements |-> TARGET_REQUIREMENTS]

\* one call of a method of the extractor: its argument and what it returned
MethodCall(op, lex, text, patent_data) ==
    [op |-> op, text |-> text, patent_data |-> patent_data,
     occurrences |->
        CASE op = "extract_structures" -> extract_structures(lex.structures, text)
          [] op = "extract_locations" -> extract_locations(lex.location_terms, text)
          [] op = "extract_functions" ->
               extract_functions(lex.function_verbs, lex.function_nouns, text)
          [] op = "extract_requirements" ->
               extract_requirements(lex.requirement_patterns,
                                    lex.target_requirements, text)
          [] OTHER -> << >>,
     found |-> IF op = "extract_requirements"
               THEN found_requirements(lex.requirement_patterns,
                                       lex.target_requirements, text)
               ELSE << >>,
     patent |-> IF op = "extract_from_patent"
                THEN extract_from_patent(lex, patent_data)
                ELSE NoExtraction]

NoCall ==
    [op |-> "none", text |-> << >>, patent_data |-> NoPatentData,
     occurrences |-> << >>, found |-> << >>, patent |-> NoExtraction]

\* RFSLExtractor(): the tables of the lexicon, no call made yet
ExtInit ==
    /\ lexicon = Lexicon
    /\ ext_call = NoCall
    /\ ext_prev = NoCall
    /\ ext_calls = 0

TextMethodCalledOn(op, texts) ==
    /\ ext_calls = 0
    /\ \E text \in texts : ext_call' = MethodCall(op, lexicon, text, NoPatentData)
    /\ ext_prev' = ext_call
    /\ ext_calls' = 1
    /\ UNCHANGED lexicon

TextMethodCalled(op) == TextMethodCalledOn(op, Texts)

ExtractStructures == TextMethodCalled("extract_structures")

ExtractLocations == TextMethodCalled("extract_locations")

ExtractFunctions == TextMethodCalled("extract_functions")

ExtractRequirements ==
    TextMethodCalledOn("extract_requirements", Texts \cup RequirementTexts)

ExtractFromPatent ==
    /\ ext_calls = 0
    /\ \E patent_data \in PatentRecords :
         ext_call' = MethodCall("extract_from_patent", lexicon, << >>, patent_data)
    /\ ext_prev' = ext_call
    /\ ext_calls' = 1
    /\ UNCHANGED lexicon

\* the caller calls the same method again with the same argument
RepeatCall ==
    /\ ext_calls = 1
    /\ ext_call' = MethodCall(ext_call.op, lexicon, ext_call.text, ext_call.patent_data)
    /\ ext_prev' = ext_call
    /\ ext_calls' = 2
    /\ UNCHANGED lexicon

(***************************************************************************)
(* Python floats (IEEE 754 binary64, round to nearest, ties to even).      *)
(* A big natural is the sequence of its digits in base 2^15, lowest first, *)
(* without leading zeros; a float is [s, m, e] of value                    *)
(* (-1)^s * m * 2^e with 2^52 <= m < 2^53, or m = << >> for zero.          *)
(***************************************************************************)
LimbBits == 15
LimbBase == 2 ^ LimbBits
MantissaBits == 53

Limb(a, i) == IF i <= Len(a) THEN a[i] ELSE 0

BigNorm(a) ==
    LET nz == {i \in 1..Len(a) : a[i] # 0}
    IN  IF nz = {} THEN << >>
        ELSE SubSeq(a, 1, CHOOSE i \in nz : \A j \in nz : j <= i)

\* a small int as a big natural
BigOfInt(n) ==
    BigNorm(<<n % LimbBase, (n \div LimbBase) % LimbBase, n \div (LimbBase * LimbBase)>>)

BigLess(a, b) ==
    IF Len(a) # Len(b) THEN Len(a) < Len(b)
    ELSE \E i \in 1..Len(a) : a[i] < b[i] /\ \A j \in (i + 1)..Len(a) : a[j] = b[j]

\* the carry into digit i of a sum whose digit sums are s: some lower digit
\* overflows and every digit between passes the carry on
BigCarry(s, i) ==
    IF \E j \in 1..(i - 1) : s[j] >= LimbBase /\ \A k \in (j + 1)..(i - 1) : s[k] = LimbBase - 1
    THEN 1 ELSE 0

BigAddDigits(s) == BigNorm([i \in 1..Len(s) |-> (s[i] + BigCarry(s, i)) % LimbBase])

BigAdd(a, b) ==
    IF a = << >> THEN b
    ELSE IF b = << >> THEN a
    ELSE BigAddDigits([i \in 1..((IF Len(a) > Len(b) THEN Len(a) ELSE Len(b)) + 1) |->
                    Limb(a, i) + Limb(b, i)])

BigBorrow(a, b, i) ==
    IF \E j \in 1..(i - 1) : a[j] < Limb(b, j) /\ \A k \in (j + 1)..(i - 1) : a[k] = Limb(b, k)
    THEN 1 ELSE 0

\* a - b for a >= b
BigSub(a, b) ==
    IF b = << >> THEN a
    ELSE BigNorm([i \in 1..Len(a) |-> (a[i] - Limb(b, i) - BigBorrow(a, b, i)) % LimbBase])

\* a * k for 0 <= k <= 2^15
BigMulSmall(a, k) ==
    IF a = << >> THEN << >>
    ELSE BigAdd(BigNorm([i \in 1..Len(a) |-> (a[i] * k) % LimbBase]),
                BigNorm(<<0>> \o [i \in 1..Len(a) |-> (a[i] * k) \div LimbBase]))

ZeroLimbs(n) == [i \in 1..n |-> 0]

RECURSIVE BigMulFrom(_, _, _)
BigMulFrom(a, b, i) ==
    IF i > Len(b) THEN << >>
    ELSE BigAdd(ZeroLimbs(i - 1) \o BigMulSmall(a, b[i]), BigMulFrom(a, b, i + 1))

BigMul(a, b) == BigMulFrom(a, b, 1)

\* a * 2^k
BigShiftLeft(a, k) ==
    IF a = << >> THEN << >>
    ELSE ZeroLimbs(k \div LimbBits) \o BigMulSmall(a, 2 ^ (k % LimbBits))

BigShiftRightBits(a, bits) ==
    BigNorm([i \in 1..Len(a) |->
                (a[i] \div (2 ^ bits)) + (Limb(a, i + 1) % (2 ^ bits)) * 2 ^ (LimbBits - bits)])

\* a // 2^k
BigShiftRight(a, k) ==
    IF k \div LimbBits >= Len(a) THEN << >>
    ELSE BigShiftRightBits(SubSeq(a, (k \div LimbBits) + 1, Len(a)), k % LimbBits)

SmallBitLen(x) == CHOOSE n \in 0..LimbBits : x < 2 ^ n /\ (n = 0 \/ x >= 2 ^ (n - 1))

BigBitLen(a) ==
    IF a = << >> THEN 0 ELSE LimbBits * (Len(a) - 1) + SmallBitLen(a[Len(a)])

\* One digit of the long division: the largest q with q * d <= r, for a divisor
\* whose top digit is at least 2^14 and r < d * 2^15.
QuotientGuess(r, d) ==
    IF (Limb(r, Len(d) + 1) * LimbBase + Limb(r, Len(d))) \div d[Len(d)] > LimbBase - 1
    THEN LimbBase - 1
    ELSE (Limb(r, Len(d) + 1) * LimbBase + Limb(r, Len(d))) \div d[Len(d)]

QuotientNear(r, d, top) ==
    CHOOSE q \in {c \in (top - 2)..top : c >= 0} :
        /\ ~BigLess(r, BigMulSmall(d, q))
        /\ q = top \/ BigLess(r, BigMulSmall(d, q + 1))

QuotientDigit(r, d) == QuotientNear(r, d, QuotientGuess(r, d))

\* [q, r] of the long division of a by a normalised d: digit i of a downwards,
\* rem the remainder and q the quotient digits so far
RECURSIVE BigDivFrom(_, _, _, _, _)
BigDivStep(a, d, i, r, q, digit) ==
    IF digit = 0 THEN BigDivFrom(a, d, i - 1, r, <<0>> \o q)
    ELSE BigDivFrom(a, d, i - 1, BigSub(r, BigMulSmall(d, digit)), <<digit>> \o q)

BigDivFrom(a, d, i, rem, q) ==
    IF i = 0 THEN [q |-> q, r |-> rem]
    ELSE BigDivStep(a, d, i, BigNorm(<<a[i]>> \o rem), q,
                    QuotientDigit(BigNorm(<<a[i]>> \o rem), d))

\* the digits of a above the lowest n, which are less than a divisor of n + 1 digits
BigTop(a, n) == IF Len(a) <= n THEN << >> ELSE SubSeq(a, n + 1, Len(a))

BigDivNormal(a, d) ==
    IF Len(a) < Len(d) THEN [q |-> << >>, r |-> a]
    ELSE BigDivFrom(a, d, Len(a) - Len(d) + 1, BigTop(a, Len(a) - Len(d) + 1), << >>)

BigDivResult(res) == [inexact |-> res.r # << >>, q |-> BigNorm(res.q)]

\* a // d and whether a % d is not 0, for d > 0
BigDivShifted(a, d, shift) ==
    BigDivResult(BigDivNormal(BigShiftLeft(a, shift), BigShiftLeft(d, shift)))

BigDiv(a, d) ==
    IF BigLess(a, d) THEN [inexact |-> a # << >>, q |-> << >>]
    ELSE BigDivShifted(a, d, LimbBits - SmallBitLen(d[Len(d)]))

\* the least s with t < s * s, for t < 2^30
SmallSqrtAbove(t) ==
    CHOOSE s \in 1..LimbBase : t < s * s /\ (s - 1) * (s - 1) <= t

\* a first guess of the square root of n, not below it: from the two top digits
\* of n when the digits below them are an even number, else from the top digit
BigSqrtGuess(n) ==
    IF Len(n) = 1 THEN <<SmallSqrtAbove(n[1])>>
    ELSE IF Len(n) % 2 = 0
    THEN BigNorm(ZeroLimbs((Len(n) - 2) \div 2)
                 \o <<SmallSqrtAbove(n[Len(n)] * LimbBase + n[Len(n) - 1])>>)
    ELSE BigNorm(ZeroLimbs((Len(n) - 1) \div 2) \o <<SmallSqrtAbove(n[Len(n)])>>)

\* Newton's iteration for the integer square root, from x >= sqrt(n): the next
\* x is (x + n // x) // 2, which is below x as long as n // x is
RECURSIVE BigSqrtFrom(_, _)
BigSqrtNext(n, x, q) ==
    IF BigLess(q, x) THEN BigSqrtFrom(n, BigShiftRight(BigAdd(x, q), 1)) ELSE x

BigSqrtFrom(n, x) == IF x = << >> THEN << >> ELSE BigSqrtNext(n, x, BigDiv(n, x).q)

BigSqrt(n) == IF n = << >> THEN << >> ELSE BigSqrtFrom(n, BigSqrtGuess(n))

FloatZero == [s |-> 0, m |-> << >>, e |-> 0]

\* q * 2^e rounded up or not to the next mantissa
FloatPack(sign, q, e, up) ==
    IF ~up THEN [s |-> sign, m |-> q, e |-> e]
    ELSE IF BigBitLen(BigAdd(q, <<1>>)) > MantissaBits
    THEN [s |-> sign, m |-> BigShiftRight(BigAdd(q, <<1>>), 1), e |-> e + 1]
    ELSE [s |-> sign, m |-> BigAdd(q, <<1>>), e |-> e]

FloatRoundAt(sign, n, e, inexact, k, q) ==
    LET rem == BigSub(n, BigShiftLeft(q, k))
        half == BigShiftLeft(<<1>>, k - 1)
    IN  FloatPack(sign, q, e + k,
                  BigLess(half, rem) \/ (rem = half /\ (inexact \/ q[1] % 2 = 1)))

\* the float nearest to (-1)^sign * n * 2^e, ties to even; inexact tells that the
\* exact value lies above n * 2^e and below (n + 1) * 2^e
FloatRound(sign, n, e, inexact) ==
    IF n = << >> THEN FloatZero
    ELSE IF BigBitLen(n) <= MantissaBits
    THEN [s |-> sign, m |-> BigShiftLeft(n, MantissaBits - BigBitLen(n)),
          e |-> e - (MantissaBits - BigBitLen(n))]
    ELSE FloatRoundAt(sign, n, e, inexact, BigBitLen(n) - MantissaBits,
                      BigShiftRight(n, BigBitLen(n) - MantissaBits))

\* float(n) of an int
FloatOfInt(n) ==
    IF n < 0 THEN FloatRound(1, BigOfInt(-n), 0, FALSE)
    ELSE FloatRound(0, BigOfInt(n), 0, FALSE)

FloatNeg(a) == IF a.m = << >> THEN a ELSE [a EXCEPT !.s = 1 - a.s]

\* a * b
FloatMul(a, b) ==
    IF a.m = << >> \/ b.m = << >> THEN FloatZero
    ELSE FloatRound((a.s + b.s) % 2, BigMul(a.m, b.m), a.e + b.e, FALSE)

FloatDivOf(sign, d, e) == FloatRound(sign, d.q, e, d.inexact)

\* the exception of a division by zero, in place of a float
ZeroDivisionError == [s |-> 0, m |-> << >>, e |-> 1]

\* a / b
FloatDiv(a, b) ==
    IF b.m = << >> THEN ZeroDivisionError
    ELSE IF a.m = << >> THEN FloatZero
    ELSE FloatDivOf((a.s + b.s) % 2, BigDiv(BigShiftLeft(a.m, MantissaBits + 2), b.m),
                    a.e - b.e - (MantissaBits + 2))

FloatSqrtOf(n, root, e) == FloatRound(0, root, e, BigMul(root, root) # n)

FloatSqrtAt(a, k) ==
    FloatSqrtOf(BigShiftLeft(a.m, k), BigSqrt(BigShiftLeft(a.m, k)), (a.e - k) \div 2)

\* math.sqrt(a), np.sqrt(a) for a >= 0: the root of m * 2^k * 2^(e - k) for a k
\* that makes e - k even and m * 2^k a number of eight digits
FloatSqrt(a) ==
    IF a.m = << >> THEN FloatZero
    ELSE FloatSqrtAt(a, 8 * LimbBits - MantissaBits - 1
                        + ((a.e + 8 * LimbBits - MantissaBits - 1) % 2))

\* |a| < |b|
FloatMagLess(a, b) ==
    IF b.m = << >> THEN FALSE
    ELSE IF a.m = << >> THEN TRUE
    ELSE a.e < b.e \/ (a.e = b.e /\ BigLess(a.m, b.m))

\* a < b
FloatLess(a, b) ==
    IF a.s # b.s THEN a.s = 1
    ELSE IF a.s = 0 THEN FloatMagLess(a, b) ELSE FloatMagLess(b, a)

FloatLeq(a, b) == ~FloatLess(b, a)

FloatAddAligned(a, b, x, y, e) ==
    IF a.s = b.s THEN FloatRound(a.s, BigAdd(x, y), e, FALSE)
    ELSE IF x = y THEN FloatZero
    ELSE IF BigLess(x, y) THEN FloatRound(b.s, BigSub(y, x), e, FALSE)
    ELSE FloatRound(a.s, BigSub(x, y), e, FALSE)

FloatAddAt(a, b, e) ==
    FloatAddAligned(a, b, BigShiftLeft(a.m, a.e - e), BigShiftLeft(b.m, b.e - e), e)

\* a + b
FloatAdd(a, b) ==
    IF a.m = << >> THEN b
    ELSE IF b.m = << >> THEN a
    ELSE FloatAddAt(a, b, IF a.e < b.e THEN a.e ELSE b.e)

\* a - b
FloatSub(a, b) == FloatAdd(a, FloatNeg(b))

(***************************************************************************)
(* PatentSimilarityAnalyzer (similarity_analyzer.py).                      *)
(***************************************************************************)
\* the patent ids of the graphs the analyzer loads, in their order as strings
AnalyzedIds == <<"P1", "P2", "P3", "P4">>

\* The entities of one patent, as its *_rfsl.json lists them: a requirement and a
\* function in reach of each other; the same with a structure in reach of the
\* function; one structure whose text is blank; no entity at all.
ProfileEntity(text, position) ==
    [keys |-> {"entity", "position"}, entity |-> text, position |-> position, category |-> ""]

Spar == <<"s", "p", "a", "r">>

EntityProfiles == {
    [keys |-> KindSet, R |-> <<ProfileEntity(Spar, 399)>>, F |-> <<ProfileEntity(Spar, 200)>>,
     S |-> << >>, L |-> << >>],
    [keys |-> KindSet, R |-> <<ProfileEntity(Spar, 399)>>, F |-> <<ProfileEntity(Spar, 200)>>,
     S |-> <<ProfileEntity(<<"w", "e", "b">>, 101)>>, L |-> << >>],
    [keys |-> KindSet, R |-> << >>, F |-> << >>, S |-> <<ProfileEntity(<<" ">>, 101)>>,
     L |-> << >>],
    [keys |-> KindSet, R |-> << >>, F |-> << >>, S |-> << >>, L |-> << >>]}

\* the files of the first n patents, one file each, in the order of the ids
RECURSIVE RfslFileLists(_, _)
RfslFileLists(profiles, n) ==
    IF n = 0 THEN {<< >>}
    ELSE {Append(files, [keys |-> {"patent_id", "entities"},
                         patent_id |-> AnalyzedIds[n], entities |-> e]) :
            files \in RfslFileLists(profiles, n - 1), e \in profiles}

\* the graph build_pkg_from_all_patents saves after building the files in order
RECURSIVE BuiltFrom(_, _)
BuiltGraph(r) == [nodes |-> r.nodes, edges |-> r.edges, counter |-> r.counter]

BuiltFrom(files, n) ==
    IF n = 0 THEN [nodes |-> << >>, edges |-> << >>, counter |-> << >>]
    ELSE BuiltGraph(build_graph_from_rfsl(BuiltFrom(files, n - 1), files[n]))

\* pickle.dump(self.graph) and pickle.load: the nodes and the edges with their attributes
PersistedGraph(g) == [nodes |-> g.nodes, edges |-> g.edges]

RfslDirectories == UNION {RfslFileLists(EntityProfiles, n) : n \in 1..MaxPatents}

\* sorted(list(patent_ids))
extract_patent_ids(graph) ==
    SelectSeq(AnalyzedIds,
              LAMBDA p : \E n \in DOMAIN graph.nodes : graph.nodes[n].patent_id = p)

PatentNodes(graph, patent_id) ==
    {n \in DOMAIN graph.nodes : graph.nodes[n].patent_id = patent_id}

\* full_graph.subgraph(patent_nodes): the nodes and the edges between them
Subgraph(graph, patent_nodes) ==
    [nodes |-> [n \in patent_nodes |-> graph.nodes[n]],
     edges |-> [e \in {d \in DOMAIN graph.edges : d[1] \in patent_nodes /\ d[2] \in patent_nodes}
                  |-> graph.edges[e]]]

extract_patent_subgraph(graph, patent_id) == Subgraph(graph, PatentNodes(graph, patent_id))

get_entity_labels(graph) ==
    {Strip(Lower(graph.nodes[n].label)) : n \in DOMAIN graph.nodes} \ {<< >>}

\* a defaultdict(int) of counts: the function from the keys counted to their counts
get_entity_types(graph) ==
    [t \in {graph.nodes[n].type : n \in DOMAIN graph.nodes} \ {""} |->
        Cardinality({n \in DOMAIN graph.nodes : graph.nodes[n].type = t})]

get_relation_types(graph) ==
    [r \in {graph.edges[e] : e \in DOMAIN graph.edges} \ {""} |->
        Cardinality({e \in DOMAIN graph.edges : graph.edges[e] = r})]

\* jaccard_similarity without `if union == 0: return 0.0`
jaccard_similarity_unguarded(set1, set2) ==
    FloatDiv(FloatOfInt(Cardinality(set1 \cap set2)), FloatOfInt(Cardinality(set1 \cup set2)))

jaccard_similarity(set1, set2) ==
    IF Cardinality(set1 \cup set2) = 0 THEN FloatZero
    ELSE FloatDiv(FloatOfInt(Cardinality(set1 \cap set2)),
                  FloatOfInt(Cardinality(set1 \cup set2)))

\* sum(vec1[k] * vec2.get(k, 0) for k in vec1.keys())
DotProduct(vec1, vec2) ==
    SumOver([k \in DOMAIN vec1 |-> vec1[k] * (IF k \in DOMAIN vec2 THEN vec2[k] ELSE 0)],
            DOMAIN vec1)

\* np.sqrt(sum(v ** 2 for v in vec.values()))
Magnitude(vec) ==
    FloatSqrt(FloatOfInt(SumOver([k \in DOMAIN vec |-> vec[k] * vec[k]], DOMAIN vec)))

CosineOf(dot_product, magnitude1, magnitude2) ==
    IF magnitude1 = FloatZero \/ magnitude2 = FloatZero THEN FloatZero
    ELSE FloatDiv(FloatOfInt(dot_product), FloatMul(magnitude1, magnitude2))

cosine_similarity(vec1, vec2) ==
    CosineOf(DotProduct(vec1, vec2), Magnitude(vec1), Magnitude(vec2))

\* abs(n1 - n2) / n1 in place of abs(n1 - n2) / max(n1, n2)
CountDiffByFirst(n1, n2) ==
    IF n1 > 0 THEN FloatDiv(FloatOfInt(Abs(n1 - n2)), FloatOfInt(n1)) ELSE FloatZero

\* abs(n1 - n2) / max(n1, n2) if max(n1, n2) > 0 else 0
CountDiff(n1, n2) ==
    IF (IF n1 > n2 THEN n1 ELSE n2) > 0
    THEN FloatDiv(FloatOfInt(Abs(n1 - n2)), FloatOfInt(IF n1 > n2 THEN n1 ELSE n2))
    ELSE FloatZero

\* 1 - ((node_diff + edge_diff) / 2)
SizeSimilarity(node_diff, edge_diff) ==
    IF ZeroDivisionError \in {node_diff, edge_diff} THEN ZeroDivisionError
    ELSE FloatSub(FloatOfInt(1), FloatDiv(FloatAdd(node_diff, edge_diff), FloatOfInt(2)))

\* the float literals of the weights dict
EntityWeight == FloatDiv(FloatOfInt(4), FloatOfInt(10))
StructureWeight == FloatDiv(FloatOfInt(2), FloatOfInt(10))
RelationWeight == FloatDiv(FloatOfInt(2), FloatOfInt(10))
SizeWeight == FloatDiv(FloatOfInt(2), FloatOfInt(10))

\* the weighted sum, added from left to right
OverallSimilarity(entity, structure, relation, size) ==
    FloatAdd(FloatAdd(FloatAdd(FloatMul(EntityWeight, entity),
                               FloatMul(StructureWeight, structure)),
                      FloatMul(RelationWeight, relation)),
             FloatMul(SizeWeight, size))

NoSimilarity == [raised |-> "", patent1 |-> "", patent2 |-> "",
                 overall_similarity |-> FloatZero, entity_similarity |-> FloatZero,
                 structure_similarity |-> FloatZero, relation_similarity |-> FloatZero,
                 size_similarity |-> FloatZero,
                 graph1_stats |-> [nodes |-> 0, edges |-> 0],
                 graph2_stats |-> [nodes |-> 0, edges |-> 0]]

SimilarityResult(patent_id1, patent_id2, graph1, graph2, entity, structure, relation, size) ==
    IF ZeroDivisionError \in {entity, structure, relation, size}
    THEN [NoSimilarity EXCEPT !.raised = "ZeroDivisionError",
                              !.patent1 = patent_id1, !.patent2 = patent_id2]
    ELSE [raised |-> "", patent1 |-> patent_id1, patent2 |-> patent_id2,
          overall_similarity |-> OverallSimilarity(entity, structure, relation, size),
          entity_similarity |-> entity,
          structure_similarity |-> structure,
          relation_similarity |-> relation,
          size_similarity |-> size,
          graph1_stats |-> [nodes |-> Cardinality(DOMAIN graph1.nodes),
                            edges |-> Cardinality(DOMAIN graph1.edges)],
          graph2_stats |-> [nodes |-> Cardinality(DOMAIN graph2.nodes),
                            edges |-> Cardinality(DOMAIN graph2.edges)]]

SimilarityOf(patent_id1, patent_id2, graph1, graph2) ==
    SimilarityResult(patent_id1, patent_id2, graph1, graph2,
        jaccard_similarity(get_entity_labels(graph1), get_entity_labels(graph2)),
        cosine_similarity(get_entity_types(graph1), get_entity_types(graph2)),
        cosine_similarity(get_relation_types(graph1), get_relation_types(graph2)),
        SizeSimilarity(CountDiff(Cardinality(DOMAIN graph1.nodes),
                                 Cardinality(DOMAIN graph2.nodes)),
                       CountDiff(Cardinality(DOMAIN graph1.edges),
                                 Cardinality(DOMAIN graph2.edges))))

\* subgraphs is self.patent_subgraphs: a lookup of an id it does not hold raises
calculate_similarity(subgraphs, patent_id1, patent_id2) ==
    IF patent_id1 \notin DOMAIN subgraphs \/ patent_id2 \notin DOMAIN subgraphs
    THEN [NoSimilarity EXCEPT !.raised = "KeyError",
                              !.patent1 = patent_id1, !.patent2 = patent_id2]
    ELSE SimilarityOf(patent_id1, patent_id2, subgraphs[patent_id1], subgraphs[patent_id2])

\* itertools.combinations(ids, 2), from the pair of positions <<i, j>> on
RECURSIVE Combinations(_, _, _)
Combinations(ids, i, j) ==
    IF i >= Len(ids) THEN << >>
    ELSE IF j > Len(ids) THEN Combinations(ids, i + 1, i + 2)
    ELSE <<(<<ids[i], ids[j]>>)>> \o Combinations(ids, i, j + 1)

\* list.sort(key=overall_similarity) without reverse=True, one insertion of it
InsertAscending(sorted, r) ==
    LET before == {i \in 1..Len(sorted) :
                     ~FloatLess(r.overall_similarity, sorted[i].overall_similarity)}
    IN  SubSeq(sorted, 1, Cardinality(before)) \o <<r>>
        \o SubSeq(sorted, Cardinality(before) + 1, Len(sorted))

\* One insertion of list.sort(key=overall_similarity, reverse=True): r goes after
\* the records that are not below it, which keeps the order of equal records.
InsertDescending(sorted, r) ==
    LET before == {i \in 1..Len(sorted) :
                     ~FloatLess(sorted[i].overall_similarity, r.overall_similarity)}
    IN  SubSeq(sorted, 1, Cardinality(before)) \o <<r>>
        \o SubSeq(sorted, Cardinality(before) + 1, Len(sorted))

RECURSIVE SortResults(_, _)
SortResults(results_list, n) ==
    IF n = 0 THEN << >>
    ELSE InsertDescending(SortResults(results_list, n - 1), results_list[n])

PairResults(subgraphs, pairs) ==
    [i \in 1..Len(pairs) |-> calculate_similarity(subgraphs, pairs[i][1], pairs[i][2])]

analyze_all_pairs(ids, subgraphs) ==
    SortResults(PairResults(subgraphs, Combinations(ids, 1, 2)),
                Len(Combinations(ids, 1, 2)))

\* a call of a method: the sets or vectors given to a metric and the value it
\* returned, or the record or the list of records of a scoring method
NoSimCall == [op |-> "none", args |-> << >>, value |-> FloatZero,
              result |-> NoSimilarity, results |-> << >>]

\* label sets and count vectors a caller may give to the metrics: an empty one,
\* an all-zero vector, vectors of common and of disjoint keys
LabelSets == {{}, {"spar"}, {"spar", "web"}}

CountVectors == {<< >>, [k \in {"R"} |-> 0], [k \in {"R"} |-> 1], [k \in {"F"} |-> 2],
                 [k \in {"R", "F"} |-> IF k = "R" THEN 1 ELSE 2]}

\* PatentSimilarityAnalyzer(graph_file): the graph loaded, its patent ids, their subgraphs
SimLoaded(graph) ==
    /\ full_graph = graph
    /\ analyzer_patent_ids = extract_patent_ids(graph)
    /\ patent_subgraphs =
         [p \in {extract_patent_ids(graph)[i] : i \in 1..Len(extract_patent_ids(graph))} |->
            extract_patent_subgraph(graph, p)]
    /\ sim_call = NoSimCall
    /\ sim_prev = NoSimCall
    /\ sim_calls = 0

\* the pipeline up to the analyzer: the files are built into a graph, the graph is
\* saved, the analyzer loads it
SimInit ==
    \E files \in RfslDirectories :
        /\ rfsl_patents = [i \in 1..Len(files) |-> files[i].patent_id]
        /\ SimLoaded(PersistedGraph(BuiltFrom(files, Len(files))))

\* an analyzer the other components' specifications leave alone
SimIdle == rfsl_patents = << >> /\ SimLoaded([nodes |-> << >>, edges |-> << >>])

\* a call with any two ids, of the graph or not
CalculateSimilarity ==
    /\ sim_calls = 0
    /\ \E patent_id1 \in {AnalyzedIds[i] : i \in 1..MaxPatents} :
         \E patent_id2 \in {AnalyzedIds[i] : i \in 1..MaxPatents} :
            sim_call' = [NoSimCall EXCEPT
                           !.op = "calculate_similarity",
                           !.result = calculate_similarity(patent_subgraphs,
                                                           patent_id1, patent_id2)]
    /\ sim_prev' = sim_call
    /\ sim_calls' = 1
    /\ UNCHANGED <<rfsl_patents, full_graph, analyzer_patent_ids, patent_subgraphs>>

\* the caller scores the pair of the last call in the other order
CalculateReversed ==
    /\ sim_calls = 1
    /\ sim_call.op = "calculate_similarity"
    /\ sim_call' = [NoSimCall EXCEPT
                      !.op = "calculate_similarity",
                      !.result = calculate_similarity(patent_subgraphs,
                                                      sim_call.result.patent2,
                                                      sim_call.result.patent1)]
    /\ sim_prev' = sim_call
    /\ sim_calls' = 2
    /\ UNCHANGED <<rfsl_patents, full_graph, analyzer_patent_ids, patent_subgraphs>>

JaccardSimilarity ==
    /\ sim_calls = 0
    /\ \E set1 \in LabelSets, set2 \in LabelSets :
         sim_call' = [NoSimCall EXCEPT !.op = "jaccard_similarity",
                                       !.args = <<set1, set2>>,
                                       !.value = jaccard_similarity(set1, set2)]
    /\ sim_prev' = sim_call
    /\ sim_calls' = 1
    /\ UNCHANGED <<rfsl_patents, full_graph, analyzer_patent_ids, patent_subgraphs>>

CosineSimilarity ==
    /\ sim_calls = 0
    /\ \E vec1 \in CountVectors, vec2 \in CountVectors :
         sim_call' = [NoSimCall EXCEPT !.op = "cosine_similarity",
                                       !.args = <<vec1, vec2>>,
                                       !.value = cosine_similarity(vec1, vec2)]
    /\ sim_prev' = sim_call
    /\ sim_calls' = 1
    /\ UNCHANGED <<rfsl_patents, full_graph, analyzer_patent_ids, patent_subgraphs>>

AnalyzeAllPairs ==
    /\ sim_calls = 0
    /\ sim_call' = [NoSimCall EXCEPT
                      !.op = "analyze_all_pairs",
                      !.results = analyze_all_pairs(analyzer_patent_ids, patent_subgraphs)]
    /\ sim_prev' = sim_call
    /\ sim_calls' = 1
    /\ UNCHANGED <<rfsl_patents, full_graph, analyzer_patent_ids, patent_subgraphs>>

(***************************************************************************)
(* Taxonomy matcher (cpc_taxonomy.py) and PatentCategorizer.categorize_patent. *)
(***************************************************************************)
\* One code of a category: the code, its 'descripcion' and its 'peso' in tenths
\* (the weights of the table are the literals 1.0, 0.9, 0.8, 0.7 and 0.6).
Codigo(codigo, descripcion, tenths) ==
    [codigo |-> codigo, descripcion |-> descripcion, peso |-> tenths]

\* CPC_TAXONOMY, the categories and the codes of each in the order of the table
CPC_TAXONOMY == <<
    [categoria |-> "perfil_aerodinamico", codigos |-> <<
        Codigo(<<"F", "0", "3", "D", "1", "/", "0", "6", "0", "8">>, "Aerodynamic shape of the rotor", 10),
        Codigo(<<"F", "0", "3", "D", "1", "/", "0", "6", "3", "3">>, "Aerodynamic shape of the blades", 10),
        Codigo(<<"F", "0", "3", "D", "1", "/", "0", "6", "4", "1">>, "Aerodynamic profile (blade section profile)", 10),
        Codigo(<<"F", "0", "3", "D", "1", "/", "0", "6", "2", "5">>, "Aerodynamic shape of the complete rotor", 9),
        Codigo(<<"F", "0", "3", "D", "1", "/", "0", "6">>, "Rotors characterised by their aerodynamic shape", 9),
        Codigo(<<"F", "0", "3", "D", "7", "/", "0", "2", "2">>, "Adjusting aerodynamic properties of the blades", 8),
        Codigo(<<"F", "0", "5", "B", "2", "2", "4", "0", "/", "2", "3", "1">>, "Blades driven by aerodynamic lift effects", 8),
        Codigo(<<"F", "0", "5", "B", "2", "2", "4", "0", "/", "2", "3", "2">>, "Blades driven by drag", 7),
        Codigo(<<"F", "0", "5", "B", "2", "2", "4", "0", "/", "3", "0", "1">>, "Cross-section characteristics", 9),
        Codigo(<<"F", "0", "5", "B", "2", "2", "4", "0", "/", "3", "0", "3">>, "Details of the leading edge", 9),
        Codigo(<<"F", "0", "5", "B", "2", "2", "4", "0", "/", "3", "0", "4">>, "Details of the trailing edge", 9),
        Codigo(<<"F", "0", "5", "B", "2", "2", "4", "0", "/", "3", "0", "4", "2">>, "Serrated trailing edge", 8),
        Codigo(<<"F", "0", "5", "B", "2", "2", "4", "0", "/", "3", "0", "7">>, "Blade tip (winglets)", 9)
    >>],
    [categoria |-> "geometria_2d", codigos |-> <<
        Codigo(<<"F", "0", "5", "B", "2", "2", "5", "0", "/", "1", "1">>, "Triangular geometry", 10),
        Codigo(<<"F", "0", "5", "B", "2", "2", "5", "0", "/", "1", "2">>, "Rectangular geometry", 10),
        Codigo(<<"F", "0", "5", "B", "2", "2", "5", "0", "/", "1", "2", "1">>, "Square geometry", 9),
        Codigo(<<"F", "0", "5", "B", "2", "2", "5", "0", "/", "1", "3">>, "Trapezoidal geometry", 10),
        Codigo(<<"F", "0", "5", "B", "2", "2", "5", "0", "/", "1", "3", "1">>, "Polygonal geometry", 9),
        Codigo(<<"F", "0", "5", "B", "2", "2", "5", "0", "/", "1", "4">>, "Elliptical geometry", 10),
        Codigo(<<"F", "0", "5", "B", "2", "2", "5", "0", "/", "1", "4", "1">>, "Circular geometry", 9),
        Codigo(<<"F", "0", "5", "B", "2", "2", "5", "0", "/", "1", "5">>, "Spiral geometry", 8),
        Codigo(<<"F", "0", "5", "B", "2", "2", "5", "0", "/", "1", "6">>, "Parabolic geometry", 9),
        Codigo(<<"F", "0", "5", "B", "2", "2", "5", "0", "/", "1", "7">>, "Hyperbolic geometry", 8),
        Codigo(<<"F", "0", "5", "B", "2", "2", "5", "0", "/", "1", "8", "1">>, "Ridged pattern", 7),
        Codigo(<<"F", "0", "5", "B", "2", "2", "5", "0", "/", "1", "8", "2">>, "Crenellated/notched pattern", 7),
        Codigo(<<"F", "0", "5", "B", "2", "2", "5", "0", "/", "1", "8", "3">>, "Zigzag pattern", 7),
        Codigo(<<"F", "0", "5", "B", "2", "2", "5", "0", "/", "1", "8", "4">>, "Sinusoidal pattern", 8),
        Codigo(<<"F", "0", "5", "B", "2", "2", "5", "0", "/", "1", "9", "1">>, "Perforated", 6),
        Codigo(<<"F", "0", "5", "B", "2", "2", "5", "0", "/", "1", "9", "2">>, "Beveled", 7)
    >>],
    [categoria |-> "geometria_3d", codigos |-> <<
        Codigo(<<"F", "0", "5", "B", "2", "2", "5", "0", "/", "2", "1">>, "Pyramidal shape", 7),
        Codigo(<<"F", "0", "5", "B", "2", "2", "5", "0", "/", "2", "2">>, "Parallelepipedic shape", 7),
        Codigo(<<"F", "0", "5", "B", "2", "2", "5", "0", "/", "2", "3">>, "Prismatic shape", 8),
        Codigo(<<"F", "0", "5", "B", "2", "2", "5", "0", "/", "2", "3", "1">>, "Cylindrical shape", 8),
        Codigo(<<"F", "0", "5", "B", "2", "2", "5", "0", "/", "2", "3", "2">>, "Conical shape", 8),
        Codigo(<<"F", "0", "5", "B", "2", "2", "5", "0", "/", "2", "4">>, "Ellipsoidal shape", 8),
        Codigo(<<"F", "0", "5", "B", "2", "2", "5", "0", "/", "2", "4", "1">>, "Spherical shape", 7),
        Codigo(<<"F", "0", "5", "B", "2", "2", "5", "0", "/", "2", "5">>, "Helical shape", 9),
        Codigo(<<"F", "0", "5", "B", "2", "2", "5", "0", "/", "2", "6">>, "Paraboloidal shape", 8),
        Codigo(<<"F", "0", "5", "B", "2", "2", "5", "0", "/", "2", "7">>, "Hyperboloidal shape", 7),
        Codigo(<<"F", "0", "5", "B", "2", "2", "5", "0", "/", "2", "9", "1">>, "Hollowed structure", 8),
        Codigo(<<"F", "0", "5", "B", "2", "2", "5", "0", "/", "2", "9", "2">>, "Tapered structure", 9)
    >>],
    [categoria |-> "geometria_forma", codigos |-> <<
        Codigo(<<"F", "0", "5", "B", "2", "2", "5", "0", "/", "7", "0">>, "General shape characteristics", 8),
        Codigo(<<"F", "0", "5", "B", "2", "2", "5", "0", "/", "7", "1">>, "Curved shape", 9),
        Codigo(<<"F", "0", "5", "B", "2", "2", "5", "0", "/", "7", "1", "1">>, "Convex curvature", 8),
        Codigo(<<"F", "0", "5", "B", "2", "2", "5", "0", "/", "7", "1", "2">>, "Concave curvature", 8),
        Codigo(<<"F", "0", "5", "B", "2", "2", "5", "0", "/", "7", "1", "3">>, "Inflexed shape", 7),
        Codigo(<<"F", "0", "5", "B", "2", "2", "5", "0", "/", "7", "2">>, "Symmetric shape", 8),
        Codigo(<<"F", "0", "5", "B", "2", "2", "5", "0", "/", "7", "3">>, "Asymmetric shape", 8)
    >>],
    [categoria |-> "estructura_superficie", codigos |-> <<
        Codigo(<<"F", "0", "3", "D", "1", "/", "0", "6", "7", "5">>, "Blade constructional elements", 10),
        Codigo(<<"F", "0", "3", "D", "1", "/", "0", "6", "8", "3">>, "Blades with outer shell and inner structure (sandwich)", 10),
        Codigo(<<"F", "0", "3", "D", "1", "/", "0", "6", "9", "1">>, "Segmented blades (longitudinal)", 9),
        Codigo(<<"F", "0", "3", "D", "7", "/", "0", "2", "3", "6">>, "Change of active surface (folding)", 8),
        Codigo(<<"F", "0", "5", "B", "2", "2", "4", "0", "/", "3", "2">>, "Blades with rough surfaces", 7),
        Codigo(<<"F", "0", "5", "B", "2", "2", "4", "0", "/", "1", "2", "2">>, "Turbulators/flow-altering devices", 8),
        Codigo(<<"F", "0", "5", "B", "2", "2", "4", "0", "/", "3", "0", "2">>, "Segmented or sectional blades", 9),
        Codigo(<<"F", "0", "5", "B", "2", "2", "4", "0", "/", "3", "0", "5">>, "Flaps, slats or spoilers", 9),
        Codigo(<<"F", "0", "5", "B", "2", "2", "4", "0", "/", "3", "0", "5", "2">>, "Adjustable flaps/slats", 8),
        Codigo(<<"F", "0", "5", "B", "2", "2", "4", "0", "/", "3", "0", "6">>, "Surface measures", 7),
        Codigo(<<"F", "0", "5", "B", "2", "2", "4", "0", "/", "3", "0", "6", "2">>, "Vortex generators", 9),
        Codigo(<<"F", "0", "5", "B", "2", "2", "5", "0", "/", "6", "0">>, "Surface texture/structure", 8),
        Codigo(<<"F", "0", "5", "B", "2", "2", "5", "0", "/", "6", "1">>, "Corrugated surface", 7),
        Codigo(<<"F", "0", "5", "B", "2", "2", "5", "0", "/", "6", "1", "1">>, "Undulated surface", 7),
        Codigo(<<"F", "0", "5", "B", "2", "2", "5", "0", "/", "6", "2">>, "Smooth surface", 6),
        Codigo(<<"F", "0", "5", "B", "2", "2", "5", "0", "/", "6", "2", "1">>, "Polished surface", 6),
        Codigo(<<"F", "0", "5", "B", "2", "2", "5", "0", "/", "2", "8", "3">>, "Honeycomb structure", 9)
    >>],
    [categoria |-> "materiales", codigos |-> <<
        Codigo(<<"F", "0", "5", "B", "2", "2", "8", "0", "/", "6", "0", "0", "3">>, "Composites/fibre-reinforced materials", 10),
        Codigo(<<"F", "0", "5", "B", "2", "2", "8", "0", "/", "6", "0", "1", "3">>, "Fibres", 9),
        Codigo(<<"F", "0", "5", "B", "2", "2", "8", "0", "/", "6", "0", "0", "1">>, "Fabrics", 8),
        Codigo(<<"F", "0", "5", "B", "2", "2", "8", "0", "/", "6", "0", "0", "2">>, "Woven fabrics", 8),
        Codigo(<<"F", "0", "5", "B", "2", "2", "8", "0", "/", "4", "0", "0", "3">>, "Synthetic polymers/plastics", 8),
        Codigo(<<"F", "0", "5", "B", "2", "2", "8", "0", "/", "2", "0", "0", "6">>, "Carbon/graphite", 10),
        Codigo(<<"F", "0", "5", "B", "2", "2", "8", "0", "/", "2", "0", "0", "1">>, "Glass fiber", 10),
        Codigo(<<"F", "0", "5", "B", "2", "2", "8", "0", "/", "6", "0", "1", "1">>, "Coating materials", 7),
        Codigo(<<"F", "0", "5", "B", "2", "2", "8", "0", "/", "6", "0", "1", "2">>, "Foam materials", 7),
        Codigo(<<"F", "0", "5", "B", "2", "2", "8", "0", "/", "6", "0", "1", "5">>, "Resin", 9),
        Codigo(<<"F", "0", "5", "B", "2", "2", "8", "0", "/", "4", "0", "0", "4">>, "Rubber", 6),
        Codigo(<<"F", "0", "5", "B", "2", "2", "8", "0", "/", "1", "0", "3", "0", "4">>, "Titanium", 7),
        Codigo(<<"F", "0", "5", "B", "2", "2", "8", "0", "/", "1", "0", "2", "1">>, "Aluminium", 7)
    >>],
    [categoria |-> "manufactura", codigos |-> <<
        Codigo(<<"F", "0", "5", "B", "2", "2", "3", "0", "/", "2", "1">>, "Casting process", 8),
        Codigo(<<"F", "0", "5", "B", "2", "2", "3", "0", "/", "2", "3">>, "Permanently joining parts", 9),
        Codigo(<<"F", "0", "5", "B", "2", "2", "3", "0", "/", "2", "3", "2">>, "Welding", 8),
        Codigo(<<"F", "0", "5", "B", "2", "2", "3", "0", "/", "2", "3", "4">>, "Laser welding", 7),
        Codigo(<<"F", "0", "5", "B", "2", "2", "3", "0", "/", "2", "3", "7">>, "Brazing", 6),
        Codigo(<<"F", "0", "5", "B", "2", "2", "3", "0", "/", "5", "0">>, "Building in particular ways", 8),
        Codigo(<<"F", "0", "5", "B", "2", "2", "3", "0", "/", "6", "0">>, "Assembly methods", 9),
        Codigo(<<"F", "0", "5", "B", "2", "2", "3", "0", "/", "8", "0">>, "Repairing/retrofitting/upgrading", 8),
        Codigo(<<"F", "0", "5", "B", "2", "2", "3", "0", "/", "9", "0">>, "Coating/Surface treatment", 7),
        Codigo(<<"F", "0", "5", "B", "2", "2", "3", "0", "/", "3", "1">>, "Layer deposition", 7)
    >>],
    [categoria |-> "control_ajuste", codigos |-> <<
        Codigo(<<"F", "0", "3", "D", "7", "/", "0", "2", "2", "4">>, "Controlling blade pitch", 10),
        Codigo(<<"F", "0", "3", "D", "7", "/", "0", "2", "4">>, "Individual blade control", 10),
        Codigo(<<"F", "0", "3", "D", "7", "/", "0", "2", "3", "2">>, "Control of flaps/slats", 9),
        Codigo(<<"F", "0", "5", "B", "2", "2", "6", "0", "/", "7", "0">>, "Adjusting angle of incidence/attack", 9),
        Codigo(<<"F", "0", "5", "B", "2", "2", "6", "0", "/", "7", "2">>, "Turning around axis parallel to rotor", 8),
        Codigo(<<"F", "0", "5", "B", "2", "2", "6", "0", "/", "7", "4">>, "Turning around axis perpendicular to rotor", 8),
        Codigo(<<"F", "0", "5", "B", "2", "2", "4", "0", "/", "3", "1">>, "Blades of changeable form/shape", 9),
        Codigo(<<"F", "0", "5", "B", "2", "2", "4", "0", "/", "3", "1", "1">>, "Flexible or elastic blades", 8),
        Codigo(<<"F", "0", "5", "B", "2", "2", "4", "0", "/", "3", "1", "2">>, "Blades capable of being reefed", 7),
        Codigo(<<"F", "0", "5", "B", "2", "2", "4", "0", "/", "3", "1", "3">>, "Adjustable flow intercepting area", 8),
        Codigo(<<"F", "0", "5", "B", "2", "2", "7", "0", "/", "3", "2", "8">>, "Blade pitch angle (control parameter)", 9)
    >>],
    [categoria |-> "monitoreo_diagnostico", codigos |-> <<
        Codigo(<<"F", "0", "3", "D", "1", "7", "/", "0", "0">>, "Monitoring or testing wind motors", 10),
        Codigo(<<"F", "0", "3", "D", "1", "7", "/", "0", "0", "9">>, "Fatigue/stress monitoring", 10),
        Codigo(<<"F", "0", "3", "D", "1", "7", "/", "0", "1", "0">>, "Wear/clearance monitoring", 9),
        Codigo(<<"F", "0", "3", "D", "1", "7", "/", "0", "1", "2">>, "Vibration monitoring", 9),
        Codigo(<<"F", "0", "3", "D", "1", "7", "/", "0", "2", "7">>, "Monitoring blades", 10),
        Codigo(<<"F", "0", "5", "B", "2", "2", "6", "0", "/", "8", "0">>, "Diagnostics", 9),
        Codigo(<<"F", "0", "5", "B", "2", "2", "7", "0", "/", "8", "0", "8">>, "Strain gauges/load cells", 8),
        Codigo(<<"F", "0", "5", "B", "2", "2", "7", "0", "/", "3", "3", "4">>, "Vibration measurements", 8)
    >>],
    [categoria |-> "ruido_vibraciones", codigos |-> <<
        Codigo(<<"F", "0", "3", "D", "7", "/", "0", "2", "9", "6">>, "Controlling to reduce noise", 10),
        Codigo(<<"F", "0", "3", "D", "8", "0", "/", "3", "0">>, "Noise reduction accessories", 10),
        Codigo(<<"F", "0", "5", "B", "2", "2", "6", "0", "/", "9", "6">>, "Preventing/reducing vibration or noise", 10),
        Codigo(<<"F", "0", "5", "B", "2", "2", "6", "0", "/", "9", "6", "2">>, "Anti-noise means", 9),
        Codigo(<<"F", "0", "5", "B", "2", "2", "6", "0", "/", "9", "6", "4">>, "Damping means", 9),
        Codigo(<<"F", "0", "5", "B", "2", "2", "6", "0", "/", "9", "6", "6">>, "Correcting static/dynamic imbalance", 8),
        Codigo(<<"F", "0", "5", "B", "2", "2", "7", "0", "/", "3", "3", "3">>, "Noise/sound levels (parameter)", 8)
    >>]
>>

UpperChar(c) ==
    IF \E i \in 1..Len(LowerLetters) : LowerLetters[i] = c
    THEN UpperLetters[CHOOSE i \in 1..Len(LowerLetters) : LowerLetters[i] = c]
    ELSE c

\* str.upper()
Upper(s) == [i \in 1..Len(s) |-> UpperChar(s[i])]

\* str.replace(" ", "")
RemoveSpaces(s) == SelectSeq(s, LAMBDA c : c # " ")

\* code.upper().replace(" ", ""), without the strip()
normalize_code_unstripped(code) == RemoveSpaces(Upper(code))

normalize_code(code) == RemoveSpaces(Upper(Strip(code)))

\* str.startswith
StartsWith(s, prefix) == Len(prefix) <= Len(s) /\ SubSeq(s, 1, Len(prefix)) = prefix

\* the float a weight literal denotes
Peso(tenths) == FloatDiv(FloatOfInt(tenths), FloatOfInt(10))

\* the assignments index[codigo] = {...} of one category, in order
CategoryEntries(datos) ==
    [i \in 1..Len(datos.codigos) |->
        [codigo |-> datos.codigos[i].codigo, categoria |-> datos.categoria,
         descripcion |-> datos.codigos[i].descripcion,
         peso |-> Peso(datos.codigos[i].peso)]]

\* A dict filled by the assignments of a list of entries: a key stands where it
\* was first assigned and holds the value assigned last.
DictOf(assigned) ==
    LET first == SelectSeq([i \in 1..Len(assigned) |-> i],
                           LAMBDA i : \A j \in 1..(i - 1) :
                                        assigned[j].codigo # assigned[i].codigo)
    IN  [k \in 1..Len(first) |->
            assigned[CHOOSE j \in 1..Len(assigned) :
                       /\ assigned[j].codigo = assigned[first[k]].codigo
                       /\ \A l \in (j + 1)..Len(assigned) :
                            assigned[l].codigo # assigned[j].codigo]]

build_code_index ==
    DictOf(ConcatAll([c \in 1..Len(CPC_TAXONOMY) |-> CategoryEntries(CPC_TAXONOMY[c])]))

CODE_INDEX == build_code_index

\* the None a lookup without a match returns
None == [codigo |-> << >>, categoria |-> "None", descripcion |-> "", peso |-> FloatZero]

\* The lookups read code_index, the object CODE_INDEX as it is when they are
\* called.
\* the entry of the index at the first of the positions
FirstEntry(positions) == code_index[CHOOSE i \in positions : \A j \in positions : i <= j]

PrefixRelated(code, i) ==
    StartsWith(code, code_index[i].codigo) \/ StartsWith(code_index[i].codigo, code)

\* get_category_for_code without the exact lookup: the prefix scan alone
get_category_by_prefix(code) ==
    IF \E i \in 1..Len(code_index) : PrefixRelated(code, i)
    THEN FirstEntry({i \in 1..Len(code_index) : PrefixRelated(code, i)})
    ELSE None

get_category_for_code(code) ==
    IF \E i \in 1..Len(code_index) : code_index[i].codigo = code
    THEN FirstEntry({i \in 1..Len(code_index) : code_index[i].codigo = code})
    ELSE IF \E i \in 1..Len(code_index) : PrefixRelated(code, i)
    THEN FirstEntry({i \in 1..Len(code_index) : PrefixRelated(code, i)})
    ELSE None

\* category_scores[cat_id]["score"] += peso and the append to codigos_encontrados;
\* category_scores is the list of its items in insertion order
AddScore(category_scores, normalized, match) ==
    IF \E k \in 1..Len(category_scores) : category_scores[k].categoria = match.categoria
    THEN [k \in 1..Len(category_scores) |->
            IF category_scores[k].categoria = match.categoria
            THEN [category_scores[k] EXCEPT
                    !.score = FloatAdd(@, match.peso),
                    !.codigos_encontrados =
                        Append(@, [codigo |-> normalized,
                                   descripcion |-> match.descripcion,
                                   peso |-> match.peso])]
            ELSE category_scores[k]]
    ELSE Append(category_scores,
                [categoria |-> match.categoria,
                 score |-> FloatAdd(FloatZero, match.peso),
                 codigos_encontrados |-> <<[codigo |-> normalized,
                                            descripcion |-> match.descripcion,
                                            peso |-> match.peso]>>])

\* matched_codes[normalized] = match, every assignment kept as a new item
AppendMatched(matched_codes, normalized, match) ==
    Append(matched_codes, [codigo |-> normalized, match |-> match])

\* matched_codes[normalized] = match; matched_codes is the list of its items
SetMatched(matched_codes, normalized, match) ==
    IF \E k \in 1..Len(matched_codes) : matched_codes[k].codigo = normalized
    THEN [k \in 1..Len(matched_codes) |->
            IF matched_codes[k].codigo = normalized
            THEN [codigo |-> normalized, match |-> match]
            ELSE matched_codes[k]]
    ELSE Append(matched_codes, [codigo |-> normalized, match |-> match])

\* one insertion of sorted(items, key=score) without reverse=True
InsertByScoreAscending(sorted, item) ==
    LET before == {i \in 1..Len(sorted) : ~FloatLess(item.score, sorted[i].score)}
    IN  SubSeq(sorted, 1, Cardinality(before)) \o <<item>>
        \o SubSeq(sorted, Cardinality(before) + 1, Len(sorted))

\* One insertion of sorted(items, key=score, reverse=True): the item goes after
\* the items that are not below it, which keeps the order of equal scores.
InsertByScore(sorted, item) ==
    LET before == {i \in 1..Len(sorted) : ~FloatLess(sorted[i].score, item.score)}
    IN  SubSeq(sorted, 1, Cardinality(before)) \o <<item>>
        \o SubSeq(sorted, Cardinality(before) + 1, Len(sorted))

RECURSIVE SortByScore(_, _)
SortByScore(items, n) ==
    IF n = 0 THEN << >> ELSE InsertByScore(SortByScore(items, n - 1), items[n])

\* the loop of categorize_patent_codes from code number i on
RECURSIVE CategorizeFrom(_, _, _, _)
CategorizeStep(patent_codes, i, category_scores, matched_codes, normalized, match) ==
    IF match = None
    THEN CategorizeFrom(patent_codes, i + 1, category_scores, matched_codes)
    ELSE CategorizeFrom(patent_codes, i + 1,
                        AddScore(category_scores, normalized, match),
                        SetMatched(matched_codes, normalized, match))

CategorizeFrom(patent_codes, i, category_scores, matched_codes) ==
    IF i > Len(patent_codes)
    THEN [category_scores |-> category_scores, matched_codes |-> matched_codes]
    ELSE CategorizeStep(patent_codes, i, category_scores, matched_codes,
                        normalize_code(patent_codes[i]),
                        get_category_for_code(normalize_code(patent_codes[i])))

Categorization(patent_codes, st) ==
    [categorias |-> SortByScore(st.category_scores, Len(st.category_scores)),
     codigos_matched |-> st.matched_codes,
     total_codigos_input |-> Len(patent_codes),
     total_codigos_matched |-> Len(st.matched_codes),
     all_codes |-> << >>,
     categoria_principal |-> "",
     raised |-> ""]

categorize_patent_codes(patent_codes) ==
    Categorization(patent_codes, CategorizeFrom(patent_codes, 1, << >>, << >>))

\* the loop `for code in all_codes` of categorize_patent: the normalized codes,
\* each once, in the order of their first appearance
RECURSIVE UniqueCodes(_, _)
UniqueCodes(all_codes, n) ==
    IF n = 0 THEN << >>
    ELSE IF \E k \in 1..Len(UniqueCodes(all_codes, n - 1)) :
              UniqueCodes(all_codes, n - 1)[k] = normalize_code(all_codes[n])
    THEN UniqueCodes(all_codes, n - 1)
    ELSE Append(UniqueCodes(all_codes, n - 1), normalize_code(all_codes[n]))

\* the last category of the sorted dict in place of the first
LastCategory(categorization) ==
    IF Len(categorization.categorias) > 0
    THEN categorization.categorias[Len(categorization.categorias)].categoria
    ELSE "None"

\* main_category = list(categorization["categorias"].keys())[0], or None
MainCategory(categorization) ==
    IF Len(categorization.categorias) > 0
    THEN categorization.categorias[1].categoria
    ELSE "None"

WithMainCategory(categorization, unique_codes) ==
    [categorization EXCEPT !.all_codes = unique_codes,
                           !.categoria_principal = MainCategory(categorization)]

CategorizeUnique(unique_codes) ==
    WithMainCategory(categorize_patent_codes(unique_codes), unique_codes)

\* patent_data: a dict that may lack 'ipc_codes' or 'cpc_codes'
categorize_patent(patent_data) ==
    CategorizeUnique(UniqueCodes(GetOr(patent_data, "ipc_codes", << >>)
                                 \o GetOr(patent_data, "cpc_codes", << >>),
                                 Len(GetOr(patent_data, "ipc_codes", << >>)
                                     \o GetOr(patent_data, "cpc_codes", << >>))))

\* The codes a patent record may carry: codes of the table, one of them written
\* in lower case with spaces, a code that extends a code of the table, and a
\* code of another field.
PatentCodes == {
    <<"F", "0", "3", "D", "1", "/", "0", "6", "3", "3">>,
    <<"F", "0", "5", "B", "2", "2", "8", "0", "/", "6", "0", "0", "3">>,
    <<"F", "0", "3", "D", "1", "7", "/", "0", "0">>,
    <<" ", "f", "0", "3", "d", " ", "1", "7", "/", "0", "0">>,
    <<"F", "0", "3", "D", "7", "/", "0", "2", "2", "4">>,
    <<"F", "0", "3", "D", "1", "/", "0", "6", "7", "5", "1">>,
    <<"F", "0", "3", "D", "1", "/", "0", "6">>,
    <<"H", "0", "1", "L">>}

\* the codes looked up one at a time: also a code shorter than the codes of the
\* table, an empty code and a code with a tab inside
LookupCodes ==
    PatentCodes \cup {<<"F", "0", "3", "D", "1">>, << >>, <<"\t">>,
                      <<"F", "0", "3", "D", "\t", "1", "7", "/", "0", "0">>,
                      <<"F", "0", "3", "D", "1", "/", "0", "6", "7", "5">>,
                      <<"F", "0", "3", "D", "7", "/", "0", "2", "2">>,
                      <<"F", "0", "5", "B", "2", "2", "5", "0", "/", "2", "5">>}

RECURSIVE CodeLists(_)
CodeLists(n) ==
    IF n = 0 THEN {<< >>}
    ELSE CodeLists(n - 1)
         \cup {Append(l, c) : l \in {x \in CodeLists(n - 1) : Len(x) = n - 1}, c \in PatentCodes}

\* the records given to categorize_patent: the codes split between the two
\* keys, or all under one key and the other key absent
PatentCodeRecords ==
    UNION {{[keys |-> {"ipc_codes", "cpc_codes"}, ipc_codes |-> SubSeq(l, 1, k),
             cpc_codes |-> SubSeq(l, k + 1, Len(l))] : k \in 0..Len(l)} :
           l \in CodeLists(MaxCodes)}
    \cup {[keys |-> {"ipc_codes"}, ipc_codes |-> l, cpc_codes |-> << >>] :
            l \in CodeLists(MaxCodes)}
    \cup {[keys |-> {"cpc_codes"}, ipc_codes |-> << >>, cpc_codes |-> l] :
            l \in CodeLists(MaxCodes)}

\* get_codes_for_category: the 'codigos' dict of the category, an empty dict
\* for an id the table does not have
get_codes_for_category(category_id) ==
    IF \E c \in 1..Len(cpc_taxonomy) : cpc_taxonomy[c].categoria = category_id
    THEN cpc_taxonomy[CHOOSE c \in 1..Len(cpc_taxonomy) :
                        cpc_taxonomy[c].categoria = category_id].codigos
    ELSE << >>

\* find_matching_codes: matches[normalized] = the entry found for each code,
\* exact or first in a prefix relation; a code without one adds nothing
RECURSIVE MatchesFrom(_, _, _)
MatchesStep(patent_codes, i, matches, normalized, match) ==
    IF match = None
    THEN MatchesFrom(patent_codes, i + 1, matches)
    ELSE MatchesFrom(patent_codes, i + 1, SetMatched(matches, normalized, match))

MatchesFrom(patent_codes, i, matches) ==
    IF i > Len(patent_codes) THEN matches
    ELSE MatchesStep(patent_codes, i, matches, normalize_code(patent_codes[i]),
                  get_category_for_code(normalize_code(patent_codes[i])))

find_matching_codes(patent_codes) == MatchesFrom(patent_codes, 1, << >>)

\* the score of the category in cat["categorias"], 0.0 when it is not there
ScoreOrZero(categorias, cat_id) ==
    IF \E k \in 1..Len(categorias) : categorias[k].categoria = cat_id
    THEN categorias[CHOOSE k \in 1..Len(categorias) : categorias[k].categoria = cat_id].score
    ELSE FloatZero

\* generate_feature_vector(result), cat = result["categorization"]: a score for
\* every category of CPC_TAXONOMY in the order of the table, then the counters
generate_feature_vector(cat) ==
    [scores |-> [c \in 1..Len(cpc_taxonomy) |->
                    [categoria |-> cpc_taxonomy[c].categoria,
                     score |-> ScoreOrZero(cat.categorias, cpc_taxonomy[c].categoria)]],
     total_codes |-> cat.total_codigos_input,
     matched_codes |-> cat.total_codigos_matched,
     match_ratio |-> IF cat.total_codigos_input > 0
                     THEN FloatDiv(FloatOfInt(cat.total_codigos_matched),
                                   FloatOfInt(cat.total_codigos_input))
                     ELSE FloatZero]

\* The assignments of the calls, seen from CODE_INDEX.  An object assigned into
\* is a dict the call made itself or an entry of CODE_INDEX that the call holds
\* (get_category_for_code returns the entry itself, not a copy).
NewDict == [object |-> "new", codigo |-> << >>]

EntryOf(match) == [object |-> "CODE_INDEX", codigo |-> match.codigo]

\* dict[key] = value on one entry of the index
SetKey(entry, key, value) ==
    [k \in DOMAIN entry \cup {key} |-> IF k = key THEN value ELSE entry[k]]

\* object[key] = value: the index afterwards
AssignInto(index, object, key, value) ==
    IF object.object = "CODE_INDEX"
    THEN [i \in 1..Len(index) |->
            IF index[i].codigo = object.codigo THEN SetKey(index[i], key, value)
            ELSE index[i]]
    ELSE index

\* category_scores[cat_id] = match: the entry of the index used as the dict of
\* the category
ScoreDictOfMatch(match) == EntryOf(match)

\* category_scores[cat_id], the dict the score and the codes found are stored
\* in: the dict literal made for the category (never the match)
ScoreDict(match) == NewDict

\* the index after the loop of categorize_patent_codes has handled n codes:
\* for a matched code, ["score"] += peso and ["codigos_encontrados"].append
RECURSIVE IndexAfterCategorize(_, _, _)
IndexAfterCode(index, normalized, match) ==
    IF match = None THEN index
    ELSE AssignInto(AssignInto(index, ScoreDict(match), "score", match.peso),
                    ScoreDict(match), "codigos_encontrados", normalized)

IndexAfterCategorize(index, patent_codes, n) ==
    IF n = 0 THEN index
    ELSE IndexAfterCode(IndexAfterCategorize(index, patent_codes, n - 1),
                        normalize_code(patent_codes[n]),
                        get_category_for_code(normalize_code(patent_codes[n])))

\* the codes categorize_patent gives to categorize_patent_codes
AllUniqueCodes(patent_data) ==
    UniqueCodes(GetOr(patent_data, "ipc_codes", << >>) \o GetOr(patent_data, "cpc_codes", << >>),
                Len(GetOr(patent_data, "ipc_codes", << >>)
                    \o GetOr(patent_data, "cpc_codes", << >>)))

NoCategorization == Categorization(<< >>, [category_scores |-> << >>, matched_codes |-> << >>])

NoFeatureVector ==
    [scores |-> << >>, total_codes |-> 0, matched_codes |-> 0, match_ratio |-> FloatZero]

NoTaxCall == [op |-> "none", code |-> << >>, normalized |-> << >>, match |-> None,
              codes |-> << >>, patent_data |-> [keys |-> {}], result |-> NoCategorization,
              category_id |-> "", codigos |-> << >>, matches |-> << >>,
              feature_vector |-> NoFeatureVector]

\* the category ids asked for: the ids of the table and one it does not have
CategoryIds == {CPC_TAXONOMY[c].categoria : c \in 1..Len(CPC_TAXONOMY)} \cup {"otra"}

\* The inputs of the calls after the first call of a sequence: a code of the
\* table, a code that extends a code of the table and a code of another field;
\* a category of the table and an id it does not have; the lists of one such
\* code; the records with such a list under both keys.
FollowUpCodes == {
    <<"F", "0", "3", "D", "1", "/", "0", "6", "3", "3">>,
    <<"F", "0", "3", "D", "1", "/", "0", "6", "7", "5", "1">>,
    <<"H", "0", "1", "L">>}

FollowUpCategoryIds == {CPC_TAXONOMY[Len(CPC_TAXONOMY)].categoria, "otra"}

FollowUpCodeRecords ==
    {[keys |-> {"ipc_codes", "cpc_codes"}, ipc_codes |-> <<c>>, cpc_codes |-> <<c>>] :
        c \in FollowUpCodes}

\* the inputs of call number n + 1 of a sequence
CallLookupCodes(n) == IF n = 0 THEN LookupCodes ELSE FollowUpCodes

CallCategoryIds(n) == IF n = 0 THEN CategoryIds ELSE FollowUpCategoryIds

CallCodeLists(n) == IF n = 0 THEN CodeLists(MaxCodes) ELSE {<<c>> : c \in FollowUpCodes}

CallCodeRecords(n) == IF n = 0 THEN PatentCodeRecords ELSE FollowUpCodeRecords

\* import cpc_taxonomy: the table and the index built from it, no call made
TaxInit ==
    /\ cpc_taxonomy = CPC_TAXONOMY
    /\ code_index = CODE_INDEX
    /\ tax_call = NoTaxCall
    /\ tax_calls = 0

\* the lookup of one code as categorize_patent_codes makes it
GetCategoryForCode ==
    /\ tax_calls < MaxTaxCalls
    /\ \E code \in CallLookupCodes(tax_calls) :
         tax_call' = [NoTaxCall EXCEPT !.op = "get_category_for_code",
                                       !.code = code,
                                       !.normalized = normalize_code(code),
                                       !.match = get_category_for_code(normalize_code(code))]
    /\ tax_calls' = tax_calls + 1
    /\ UNCHANGED <<cpc_taxonomy, code_index>>

GetCodesForCategory ==
    /\ tax_calls < MaxTaxCalls
    /\ \E category_id \in CallCategoryIds(tax_calls) :
         tax_call' = [NoTaxCall EXCEPT !.op = "get_codes_for_category",
                                       !.category_id = category_id,
                                       !.codigos = get_codes_for_category(category_id)]
    /\ tax_calls' = tax_calls + 1
    /\ UNCHANGED <<cpc_taxonomy, code_index>>

FindMatchingCodes ==
    /\ tax_calls < MaxTaxCalls
    /\ \E patent_codes \in CallCodeLists(tax_calls) :
         tax_call' = [NoTaxCall EXCEPT !.op = "find_matching_codes",
                                       !.codes = patent_codes,
                                       !.matches = find_matching_codes(patent_codes)]
    /\ tax_calls' = tax_calls + 1
    /\ UNCHANGED <<cpc_taxonomy, code_index>>

CategorizePatentCodes ==
    /\ tax_calls < MaxTaxCalls
    /\ \E patent_codes \in CallCodeLists(tax_calls) :
         /\ tax_call' = [NoTaxCall EXCEPT !.op = "categorize_patent_codes",
                                          !.codes = patent_codes,
                                          !.result = categorize_patent_codes(patent_codes)]
         /\ code_index' = IndexAfterCategorize(code_index, patent_codes, Len(patent_codes))
    /\ tax_calls' = tax_calls + 1
    /\ UNCHANGED cpc_taxonomy

CategorizePatent ==
    /\ tax_calls < MaxTaxCalls
    /\ \E patent_data \in CallCodeRecords(tax_calls) :
         /\ tax_call' = [NoTaxCall EXCEPT !.op = "categorize_patent",
                                          !.patent_data = patent_data,
                                          !.result = categorize_patent(patent_data)]
         /\ code_index' = IndexAfterCategorize(code_index, AllUniqueCodes(patent_data),
                                               Len(AllUniqueCodes(patent_data)))
    /\ tax_calls' = tax_calls + 1
    /\ UNCHANGED cpc_taxonomy

\* generate_feature_vector on the result of the categorize_patent call before
GenerateFeatureVector ==
    /\ tax_calls < MaxTaxCalls
    /\ tax_call.op = "categorize_patent"
    /\ tax_call' = [NoTaxCall EXCEPT !.op = "generate_feature_vector",
                                     !.result = tax_call.result,
                                     !.feature_vector = generate_feature_vector(tax_call.result)]
    /\ tax_calls' = tax_calls + 1
    /\ UNCHANGED <<cpc_taxonomy, code_index>>

(***************************************************************************)
(* The second taxonomy (cpc_taxonomy_v2.py): its table, its index and its  *)
(* two lookups.                                                            *)
(***************************************************************************)
\* CPC_TAXONOMY of cpc_taxonomy_v2.py, the categories and the codes of each in
\* the order of the table
CPC_TAXONOMY_v2 == <<
    [categoria |-> "aerodinamico", codigos |-> <<
        Codigo(<<"F", "0", "3", "D", "1", "/", "0", "6", "0", "8">>, "Aerodynamic shape of rotor", 10),
        Codigo(<<"F", "0", "3", "D", "1", "/", "0", "6", "3", "3">>, "Aerodynamic shape of blades", 10),
        Codigo(<<"F", "0", "3", "D", "1", "/", "0", "6", "4", "1">>, "Aerodynamic profile (section)", 10),
        Codigo(<<"F", "0", "3", "D", "1", "/", "0", "6">>, "Rotors with aerodynamic shape", 10),
        Codigo(<<"F", "0", "5", "B", "2", "2", "4", "0", "/", "3", "0", "1">>, "Cross-section characteristics", 10),
        Codigo(<<"F", "0", "5", "B", "2", "2", "4", "0", "/", "3", "0", "3">>, "Leading edge details", 10),
        Codigo(<<"F", "0", "5", "B", "2", "2", "4", "0", "/", "3", "0", "4">>, "Trailing edge details", 10),
        Codigo(<<"F", "0", "5", "B", "2", "2", "4", "0", "/", "3", "0", "7">>, "Blade tip / winglets", 10),
        Codigo(<<"F", "0", "3", "D", "1", "/", "0", "6", "2", "5">>, "Aerodynamic shape complete rotor", 8),
        Codigo(<<"F", "0", "3", "D", "7", "/", "0", "2", "2">>, "Adjusting aerodynamic properties", 8),
        Codigo(<<"F", "0", "5", "B", "2", "2", "4", "0", "/", "2", "3", "1">>, "Blades driven by lift", 8),
        Codigo(<<"F", "0", "5", "B", "2", "2", "4", "0", "/", "2", "3", "2">>, "Blades driven by drag", 8),
        Codigo(<<"F", "0", "5", "B", "2", "2", "5", "0", "/", "7", "1">>, "Curved shape", 6),
        Codigo(<<"F", "0", "5", "B", "2", "2", "5", "0", "/", "7", "2">>, "Symmetric shape", 6),
        Codigo(<<"F", "0", "5", "B", "2", "2", "5", "0", "/", "7", "3">>, "Asymmetric shape", 6)
    >>],
    [categoria |-> "estructura", codigos |-> <<
        Codigo(<<"F", "0", "3", "D", "1", "/", "0", "6", "7", "5">>, "Blade constructional elements", 10),
        Codigo(<<"F", "0", "3", "D", "1", "/", "0", "6", "8", "3">>, "Shell + inner structure (sandwich)", 10),
        Codigo(<<"F", "0", "3", "D", "1", "/", "0", "6", "9", "1">>, "Segmented blades (longitudinal)", 10),
        Codigo(<<"F", "0", "5", "B", "2", "2", "4", "0", "/", "3", "0", "2">>, "Segmented/sectional blades", 10),
        Codigo(<<"F", "0", "5", "B", "2", "2", "4", "0", "/", "2", "0">>, "Rotors with blades", 10),
        Codigo(<<"F", "0", "5", "B", "2", "2", "4", "0", "/", "2", "1">>, "Blade details", 10),
        Codigo(<<"F", "0", "5", "B", "2", "2", "5", "0", "/", "1", "1">>, "Triangular geometry", 8),
        Codigo(<<"F", "0", "5", "B", "2", "2", "5", "0", "/", "1", "2">>, "Rectangular geometry", 8),
        Codigo(<<"F", "0", "5", "B", "2", "2", "5", "0", "/", "1", "3">>, "Trapezoidal geometry", 8),
        Codigo(<<"F", "0", "5", "B", "2", "2", "5", "0", "/", "1", "4">>, "Elliptical geometry", 8),
        Codigo(<<"F", "0", "5", "B", "2", "2", "5", "0", "/", "2", "3">>, "Prismatic 3D shape", 8),
        Codigo(<<"F", "0", "5", "B", "2", "2", "5", "0", "/", "2", "5">>, "Helical 3D shape", 8),
        Codigo(<<"F", "0", "5", "B", "2", "2", "5", "0", "/", "2", "9", "2">>, "Tapered structure", 8),
        Codigo(<<"F", "0", "5", "B", "2", "2", "5", "0", "/", "2", "8", "3">>, "Honeycomb structure", 8),
        Codigo(<<"F", "0", "5", "B", "2", "2", "5", "0", "/", "7", "0">>, "General shape characteristics", 6),
        Codigo(<<"F", "0", "5", "B", "2", "2", "5", "0", "/", "2", "9", "1">>, "Hollowed structure", 6)
    >>],
    [categoria |-> "vortex", codigos |-> <<
        Codigo(<<"F", "0", "5", "B", "2", "2", "4", "0", "/", "3", "0", "6", "2">>, "Vortex generators", 10),
        Codigo(<<"F", "0", "5", "B", "2", "2", "4", "0", "/", "1", "2", "2">>, "Turbulators / flow-altering devices", 10),
        Codigo(<<"F", "0", "3", "D", "1", "/", "0", "6", "3", "3">>, "Aerodynamic shape (VG context)", 9),
        Codigo(<<"F", "0", "5", "B", "2", "2", "4", "0", "/", "3", "0", "5">>, "Flaps, slats or spoilers", 8),
        Codigo(<<"F", "0", "5", "B", "2", "2", "4", "0", "/", "3", "0", "5", "2">>, "Adjustable flaps/slats", 8),
        Codigo(<<"F", "0", "5", "B", "2", "2", "4", "0", "/", "3", "0", "6">>, "Surface measures", 8),
        Codigo(<<"F", "0", "3", "D", "7", "/", "0", "2", "3", "6">>, "Change of active surface", 8),
        Codigo(<<"F", "0", "5", "B", "2", "2", "5", "0", "/", "6", "0">>, "Surface texture/structure", 6),
        Codigo(<<"F", "0", "5", "B", "2", "2", "4", "0", "/", "3", "2">>, "Rough surfaces", 6)
    >>],
    [categoria |-> "ruido", codigos |-> <<
        Codigo(<<"F", "0", "3", "D", "8", "0", "/", "3", "0">>, "Noise reduction accessories", 10),
        Codigo(<<"F", "0", "3", "D", "7", "/", "0", "2", "9", "6">>, "Controlling to reduce noise", 10),
        Codigo(<<"F", "0", "5", "B", "2", "2", "6", "0", "/", "9", "6">>, "Preventing/reducing noise", 10),
        Codigo(<<"F", "0", "5", "B", "2", "2", "6", "0", "/", "9", "6", "2">>, "Anti-noise means", 10),
        Codigo(<<"F", "0", "5", "B", "2", "2", "4", "0", "/", "3", "0", "4", "2">>, "Serrated trailing edge", 10),
        Codigo(<<"F", "0", "5", "B", "2", "2", "6", "0", "/", "9", "6", "4">>, "Damping means", 8),
        Codigo(<<"F", "0", "5", "B", "2", "2", "7", "0", "/", "3", "3", "3">>, "Noise/sound levels (parameter)", 8),
        Codigo(<<"F", "0", "5", "B", "2", "2", "4", "0", "/", "3", "0", "4">>, "Trailing edge details (noise)", 7),
        Codigo(<<"F", "0", "5", "B", "2", "2", "6", "0", "/", "9", "6", "6">>, "Correcting imbalance", 6)
    >>],
    [categoria |-> "control", codigos |-> <<
        Codigo(<<"F", "0", "3", "D", "7", "/", "0", "2", "2", "4">>, "Controlling blade pitch", 10),
        Codigo(<<"F", "0", "3", "D", "7", "/", "0", "2", "4">>, "Individual blade control", 10),
        Codigo(<<"F", "0", "3", "D", "7", "/", "0", "2", "3", "2">>, "Control of flaps/slats", 10),
        Codigo(<<"F", "0", "3", "D", "7", "/", "0", "2">>, "Controlling rotor by varying pitch", 10),
        Codigo(<<"F", "0", "5", "B", "2", "2", "6", "0", "/", "7", "0">>, "Adjusting angle of attack", 10),
        Codigo(<<"F", "0", "5", "B", "2", "2", "7", "0", "/", "3", "2", "8">>, "Blade pitch angle (parameter)", 10),
        Codigo(<<"F", "0", "5", "B", "2", "2", "6", "0", "/", "7", "2">>, "Turning parallel to rotor axis", 8),
        Codigo(<<"F", "0", "5", "B", "2", "2", "6", "0", "/", "7", "4">>, "Turning perpendicular to rotor", 8),
        Codigo(<<"F", "0", "5", "B", "2", "2", "4", "0", "/", "3", "1">>, "Blades of changeable form", 8),
        Codigo(<<"F", "0", "5", "B", "2", "2", "4", "0", "/", "3", "1", "1">>, "Flexible/elastic blades", 8),
        Codigo(<<"F", "0", "5", "B", "2", "2", "4", "0", "/", "3", "1", "2">>, "Blades capable of reefing", 6),
        Codigo(<<"F", "0", "5", "B", "2", "2", "4", "0", "/", "3", "1", "3">>, "Adjustable flow area", 6)
    >>],
    [categoria |-> "monitoreo", codigos |-> <<
        Codigo(<<"F", "0", "3", "D", "1", "7", "/", "0", "0">>, "Monitoring/testing wind motors", 10),
        Codigo(<<"F", "0", "3", "D", "1", "7", "/", "0", "2", "7">>, "Monitoring blades", 10),
        Codigo(<<"F", "0", "3", "D", "1", "7", "/", "0", "0", "9">>, "Fatigue/stress monitoring", 10),
        Codigo(<<"F", "0", "3", "D", "1", "7", "/", "0", "1", "0">>, "Wear/clearance monitoring", 10),
        Codigo(<<"F", "0", "3", "D", "1", "7", "/", "0", "1", "2">>, "Vibration monitoring", 10),
        Codigo(<<"F", "0", "5", "B", "2", "2", "6", "0", "/", "8", "0">>, "Diagnostics", 8),
        Codigo(<<"F", "0", "5", "B", "2", "2", "7", "0", "/", "8", "0", "8">>, "Strain gauges/load cells", 8),
        Codigo(<<"F", "0", "5", "B", "2", "2", "7", "0", "/", "3", "3", "4">>, "Vibration measurements", 8),
        Codigo(<<"G", "0", "1", "M", "5", "/", "0", "0">>, "Testing structural integrity", 8),
        Codigo(<<"G", "0", "1", "L", "1", "/", "0", "0">>, "Measuring force/stress", 6),
        Codigo(<<"G", "0", "1", "H", "1", "/", "0", "0">>, "Measuring vibrations", 6)
    >>],
    [categoria |-> "materiales", codigos |-> <<
        Codigo(<<"F", "0", "5", "B", "2", "2", "8", "0", "/", "6", "0", "0", "3">>, "Composites/fibre-reinforced", 10),
        Codigo(<<"F", "0", "5", "B", "2", "2", "8", "0", "/", "6", "0", "1", "3">>, "Fibres", 10),
        Codigo(<<"F", "0", "5", "B", "2", "2", "8", "0", "/", "2", "0", "0", "6">>, "Carbon/graphite", 10),
        Codigo(<<"F", "0", "5", "B", "2", "2", "8", "0", "/", "2", "0", "0", "1">>, "Glass fiber", 10),
        Codigo(<<"F", "0", "5", "B", "2", "2", "8", "0", "/", "6", "0", "1", "5">>, "Resin", 10),
        Codigo(<<"F", "0", "5", "B", "2", "2", "3", "0", "/", "6", "0">>, "Assembly methods", 10),
        Codigo(<<"F", "0", "5", "B", "2", "2", "3", "0", "/", "5", "0">>, "Building in particular ways", 10),
        Codigo(<<"B", "2", "9", "C", "7", "0", "/", "0", "0">>, "Shaping composites", 10),
        Codigo(<<"B", "2", "9", "D", "9", "9", "/", "0", "0">>, "Manufacturing blades", 10),
        Codigo(<<"F", "0", "5", "B", "2", "2", "8", "0", "/", "6", "0", "0", "1">>, "Fabrics", 8),
        Codigo(<<"F", "0", "5", "B", "2", "2", "8", "0", "/", "6", "0", "0", "2">>, "Woven fabrics", 8),
        Codigo(<<"F", "0", "5", "B", "2", "2", "8", "0", "/", "4", "0", "0", "3">>, "Synthetic polymers", 8),
        Codigo(<<"F", "0", "5", "B", "2", "2", "3", "0", "/", "2", "3">>, "Permanently joining parts", 8),
        Codigo(<<"F", "0", "5", "B", "2", "2", "3", "0", "/", "8", "0">>, "Repairing/retrofitting", 8),
        Codigo(<<"F", "0", "5", "B", "2", "2", "3", "0", "/", "9", "0">>, "Coating/Surface treatment", 8),
        Codigo(<<"F", "0", "5", "B", "2", "2", "8", "0", "/", "6", "0", "1", "1">>, "Coating materials", 6),
        Codigo(<<"F", "0", "5", "B", "2", "2", "8", "0", "/", "6", "0", "1", "2">>, "Foam materials", 6),
        Codigo(<<"F", "0", "5", "B", "2", "2", "3", "0", "/", "2", "1">>, "Casting process", 6),
        Codigo(<<"F", "0", "5", "B", "2", "2", "3", "0", "/", "2", "3", "2">>, "Welding", 6)
    >>]
>>

\* build_code_index of cpc_taxonomy_v2.py: index[codigo] = {...} for the codes
\* of every category in turn, a code assigned again keeping its place and
\* taking the later value
build_code_index_v2 ==
    DictOf(ConcatAll([c \in 1..Len(CPC_TAXONOMY_v2) |-> CategoryEntries(CPC_TAXONOMY_v2[c])]))

CODE_INDEX_v2 == build_code_index_v2

PrefixRelated_v2(normalized, i) ==
    \/ StartsWith(normalized, CODE_INDEX_v2[i].codigo)
    \/ StartsWith(CODE_INDEX_v2[i].codigo, normalized)

\* the entry at the first of the positions of the index
FirstEntry_v2(positions) ==
    CODE_INDEX_v2[CHOOSE i \in positions : \A j \in positions : i <= j]

\* the lookup of a code that is already normalized
LookupNormalized_v2(normalized) ==
    IF \E i \in 1..Len(CODE_INDEX_v2) : CODE_INDEX_v2[i].codigo = normalized
    THEN FirstEntry_v2({i \in 1..Len(CODE_INDEX_v2) : CODE_INDEX_v2[i].codigo = normalized})
    ELSE IF \E i \in 1..Len(CODE_INDEX_v2) : PrefixRelated_v2(normalized, i)
    THEN FirstEntry_v2({i \in 1..Len(CODE_INDEX_v2) : PrefixRelated_v2(normalized, i)})
    ELSE None

\* get_category_for_code of cpc_taxonomy_v2.py, which normalizes the code itself
get_category_for_code_v2(code) == LookupNormalized_v2(normalize_code(code))

get_codes_for_category_v2(category_id) ==
    IF \E c \in 1..Len(CPC_TAXONOMY_v2) : CPC_TAXONOMY_v2[c].categoria = category_id
    THEN CPC_TAXONOMY_v2[CHOOSE c \in 1..Len(CPC_TAXONOMY_v2) :
                           CPC_TAXONOMY_v2[c].categoria = category_id].codigos
    ELSE << >>

CategoryIds_v2 == {CPC_TAXONOMY_v2[c].categoria : c \in 1..Len(CPC_TAXONOMY_v2)} \cup {"otra"}

\* the codes looked up in the second taxonomy: the codes of the first, and a
\* code of each category of the second, one of them in lower case
LookupCodes_v2 ==
    LookupCodes \cup {CPC_TAXONOMY_v2[c].codigos[1].codigo : c \in 1..Len(CPC_TAXONOMY_v2)}
                \cup {<<"f", "0", "3", "d", "1", "/", "0", "6", "3", "3", " ">>}

\* calls of the two lookups of cpc_taxonomy_v2.py
GetCategoryForCode_v2 ==
    /\ tax_calls < MaxTaxCalls
    /\ \E code \in (IF tax_calls = 0 THEN LookupCodes_v2 ELSE FollowUpCodes) :
         tax_call' = [NoTaxCall EXCEPT !.op = "get_category_for_code_v2",
                                       !.code = code,
                                       !.normalized = normalize_code(code),
                                       !.match = get_category_for_code_v2(code)]
    /\ tax_calls' = tax_calls + 1
    /\ UNCHANGED <<cpc_taxonomy, code_index>>

GetCodesForCategory_v2 ==
    /\ tax_calls < MaxTaxCalls
    /\ \E category_id \in (IF tax_calls = 0 THEN CategoryIds_v2 ELSE {"vortex", "otra"}) :
         tax_call' = [NoTaxCall EXCEPT !.op = "get_codes_for_category_v2",
                                       !.category_id = category_id,
                                       !.codigos = get_codes_for_category_v2(category_id)]
    /\ tax_calls' = tax_calls + 1
    /\ UNCHANGED <<cpc_taxonomy, code_index>>

(***************************************************************************)
(* KMeansPatentClassifier.extract_features (kmeans_classifier.py).         *)
(***************************************************************************)
\* The entities of the patents given to the classifier: one structure; a
\* requirement and a function in reach of each other; the same with a structure
\* in reach of the function; a function, four structures and a location, all
\* out of reach of each other.
FeatureProfiles == {
    [keys |-> KindSet, R |-> << >>, F |-> << >>, S |-> <<ProfileEntity(Spar, 100)>>,
     L |-> << >>],
    [keys |-> KindSet, R |-> <<ProfileEntity(Spar, 399)>>, F |-> <<ProfileEntity(Spar, 200)>>,
     S |-> << >>, L |-> << >>],
    [keys |-> KindSet, R |-> <<ProfileEntity(Spar, 399)>>, F |-> <<ProfileEntity(Spar, 200)>>,
     S |-> <<ProfileEntity(<<"w", "e", "b">>, 101)>>, L |-> << >>],
    [keys |-> KindSet, R |-> << >>, F |-> <<ProfileEntity(Spar, 1000)>>,
     S |-> <<ProfileEntity(Spar, 100), ProfileEntity(Spar, 300),
             ProfileEntity(Spar, 500), ProfileEntity(Spar, 700)>>,
     L |-> <<ProfileEntity(Spar, 2000)>>]}

FeatureDirectories == UNION {RfslFileLists(FeatureProfiles, n) : n \in 1..MaxPatents}

RelationKinds == <<"addresses", "uses", "located_at", "occurs_at">>

\* node_types[kind] after the loop over the nodes
NodeTypeCount(graph, kind) ==
    Cardinality({n \in DOMAIN graph.nodes : graph.nodes[n].type = kind})

\* edge_types[relation] after the loop over the edges
EdgeTypeCount(graph, relation) ==
    Cardinality({e \in DOMAIN graph.edges : graph.edges[e] = relation})

\* sum(node_types.values())
TotalTyped(graph) ==
    NodeTypeCount(graph, "R") + NodeTypeCount(graph, "F")
    + NodeTypeCount(graph, "S") + NodeTypeCount(graph, "L")

\* the ratio of a kind to the nodes of the other kinds
KindRatioToOthers(count, total_nodes) ==
    IF total_nodes - count > 0
    THEN FloatDiv(FloatOfInt(count), FloatOfInt(total_nodes - count))
    ELSE FloatZero

\* node_types[kind] / total_nodes, or 0
KindRatio(count, total_nodes) ==
    IF total_nodes > 0 THEN FloatDiv(FloatOfInt(count), FloatOfInt(total_nodes))
    ELSE FloatZero

\* nx.density of a directed graph, behind `if num_nodes > 1`
Density(num_nodes, num_edges) ==
    IF num_nodes > 1 /\ num_edges > 0
    THEN FloatDiv(FloatOfInt(num_edges), FloatOfInt(num_nodes * (num_nodes - 1)))
    ELSE FloatZero

\* the degree of a node of a directed graph: the edges in and the edges out
Degree(graph, n) ==
    Cardinality({e \in DOMAIN graph.edges : e[1] = n})
    + Cardinality({e \in DOMAIN graph.edges : e[2] = n})

\* [d for _, d in graph.degree()]: a subgraph view lists its nodes in the order
\* of the full graph or in the order of a set of strings, so the degrees come in
\* any order
DegreeLists(graph) ==
    {degrees \in [1..Cardinality(DOMAIN graph.nodes) ->
                    {Degree(graph, n) : n \in DOMAIN graph.nodes}] :
        \A d \in {Degree(graph, n) : n \in DOMAIN graph.nodes} :
            Cardinality({i \in DOMAIN degrees : degrees[i] = d})
              = Cardinality({n \in DOMAIN graph.nodes : Degree(graph, n) = d})}

RECURSIVE IntSum(_, _)
IntSum(xs, n) == IF n = 0 THEN 0 ELSE IntSum(xs, n - 1) + xs[n]

\* a sum of floats added from left to right
RECURSIVE FloatSum(_, _)
FloatSum(xs, n) == IF n = 0 THEN FloatZero ELSE FloatAdd(FloatSum(xs, n - 1), xs[n])

IntMax(xs) == CHOOSE x \in {xs[i] : i \in DOMAIN xs} : \A i \in DOMAIN xs : xs[i] <= x

FloatMax(xs) ==
    CHOOSE x \in {xs[i] : i \in DOMAIN xs} : \A i \in DOMAIN xs : FloatLeq(xs[i], x)

\* np.mean of a list of ints
Mean(degrees) == FloatDiv(FloatOfInt(IntSum(degrees, Len(degrees))), FloatOfInt(Len(degrees)))

SquaredDeviations(degrees, mean) ==
    [i \in 1..Len(degrees) |->
        FloatMul(FloatSub(FloatOfInt(degrees[i]), mean),
                 FloatSub(FloatOfInt(degrees[i]), mean))]

\* np.std: the square root of the mean of the squared deviations from the mean
StdOf(degrees, mean) ==
    FloatSqrt(FloatDiv(FloatSum(SquaredDeviations(degrees, mean), Len(degrees)),
                       FloatOfInt(Len(degrees))))

\* nx.degree_centrality: each degree times 1.0 / (n - 1.0)
DegreeCentrality(degrees, s) == [i \in 1..Len(degrees) |-> FloatMul(FloatOfInt(degrees[i]), s)]

\* sum(max_centrality - c for c in centrality_values) / max_possible, or 0
CentralizationOf(centrality_values, max_centrality, max_possible) ==
    IF max_possible > 0
    THEN FloatDiv(FloatSum([i \in 1..Len(centrality_values) |->
                              FloatSub(max_centrality, centrality_values[i])],
                           Len(centrality_values)),
                  FloatOfInt(max_possible))
    ELSE FloatZero

CentralizationFrom(centrality_values, num_nodes) ==
    CentralizationOf(centrality_values, FloatMax(centrality_values),
                     (num_nodes - 1) * (num_nodes - 2))

Centralization(degrees, num_nodes) ==
    IF num_nodes > 1
    THEN CentralizationFrom(
             DegreeCentrality(degrees, FloatDiv(FloatOfInt(1), FloatOfInt(num_nodes - 1))),
             num_nodes)
    ELSE FloatZero

\* the nodes an undirected path joins to n, n included: the component of n
RECURSIVE ReachableFrom(_, _)
ReachableFrom(graph, seen) ==
    LET more == {n \in DOMAIN graph.nodes :
                   \E e \in DOMAIN graph.edges :
                      (e[1] \in seen /\ e[2] = n) \/ (e[2] \in seen /\ e[1] = n)}
    IN  IF more \subseteq seen THEN seen ELSE ReachableFrom(graph, seen \cup more)

\* nx.number_connected_components(graph.to_undirected())
NumComponents(graph) ==
    Cardinality({ReachableFrom(graph, {n}) : n \in DOMAIN graph.nodes})

\* GRUPO 5: np.mean, np.max and np.std of the degrees, or three zeros
DegreeFeatures(degrees, mean) ==
    IF Len(degrees) > 0
    THEN <<mean, FloatOfInt(IntMax(degrees)), StdOf(degrees, mean)>>
    ELSE <<FloatZero, FloatZero, FloatZero>>

\* patent_features of one patent, as the row of np.array(features) holds it:
\* every value a float
FeatureRowOf(graph, degrees, total_nodes, num_nodes, num_edges) ==
    <<FloatOfInt(NodeTypeCount(graph, "R")), FloatOfInt(NodeTypeCount(graph, "F")),
      FloatOfInt(NodeTypeCount(graph, "S")), FloatOfInt(NodeTypeCount(graph, "L")),
      KindRatio(NodeTypeCount(graph, "R"), total_nodes),
      KindRatio(NodeTypeCount(graph, "F"), total_nodes),
      KindRatio(NodeTypeCount(graph, "S"), total_nodes),
      KindRatio(NodeTypeCount(graph, "L"), total_nodes),
      FloatOfInt(EdgeTypeCount(graph, "addresses")), FloatOfInt(EdgeTypeCount(graph, "uses")),
      FloatOfInt(EdgeTypeCount(graph, "located_at")),
      FloatOfInt(EdgeTypeCount(graph, "occurs_at")),
      FloatOfInt(num_nodes), FloatOfInt(num_edges), Density(num_nodes, num_edges)>>
    \o DegreeFeatures(degrees, IF Len(degrees) > 0 THEN Mean(degrees) ELSE FloatZero)
    \o <<FloatOfInt(NumComponents(graph)), Centralization(degrees, num_nodes)>>

FeatureRow(graph, degrees) ==
    FeatureRowOf(graph, degrees, TotalTyped(graph), Cardinality(DOMAIN graph.nodes),
                 Cardinality(DOMAIN graph.edges))

\* the rows a patent may get, one per order of its degrees
FeatureRows(graph) == {FeatureRow(graph, degrees) : degrees \in DegreeLists(graph)}

\* the matrices of the first n patents
RECURSIVE FeatureMatrices(_, _, _)
FeatureMatrices(ids, subgraphs, n) ==
    IF n = 0 THEN {<< >>}
    ELSE {Append(features, row) : features \in FeatureMatrices(ids, subgraphs, n - 1),
                                  row \in FeatureRows(subgraphs[ids[n]])}

FEATURE_NAMES ==
    <<"count_R", "count_F", "count_S", "count_L",
      "ratio_R", "ratio_F", "ratio_S", "ratio_L",
      "edges_addresses", "edges_uses", "edges_located_at", "edges_occurs_at",
      "total_nodes", "total_edges", "density",
      "avg_degree", "max_degree", "std_degree",
      "num_components",
      "centralization">>

\* KMeansPatentClassifier(graph_file)
KmLoaded(graph) ==
    /\ km_graph = graph
    /\ km_patent_ids = extract_patent_ids(graph)
    /\ km_subgraphs =
         [p \in {extract_patent_ids(graph)[i] : i \in 1..Len(extract_patent_ids(graph))} |->
            extract_patent_subgraph(graph, p)]
    /\ feature_matrix = << >>
    /\ feature_names = << >>
    /\ km_calls = 0

KmInit ==
    \E files \in FeatureDirectories : KmLoaded(PersistedGraph(BuiltFrom(files, Len(files))))

\* a classifier the other components' specifications leave alone
KmIdle == KmLoaded([nodes |-> << >>, edges |-> << >>])

ExtractFeatures ==
    /\ km_calls = 0
    /\ feature_matrix' \in FeatureMatrices(km_patent_ids, km_subgraphs, Len(km_patent_ids))
    /\ feature_names' = FEATURE_NAMES
    /\ km_calls' = 1
    /\ UNCHANGED <<km_graph, km_patent_ids, km_subgraphs>>

(***************************************************************************)
(* Specifications: one per component, the other components at rest.        *)
(***************************************************************************)
Next ==
    \/ ProcessFile
    \/ GetStatistics

Init ==
    /\ PkgInit
    /\ BatchIdle
    /\ cache = [id \in BatchIds |-> "absent"]
    /\ ExtInit
    /\ SimIdle
    /\ TaxInit
    /\ KmIdle

Spec == Init /\ [][Next]_vars

BatchNext ==
    \/ (load_patents_from_list /\ UNCHANGED <<pkg_vars, ext_vars, sim_vars, tax_vars, km_vars>>)
    \/ (ProcessAllEnter /\ UNCHANGED <<pkg_vars, ext_vars, sim_vars, tax_vars, km_vars>>)
    \/ (ProcessOne /\ UNCHANGED <<pkg_vars, ext_vars, sim_vars, tax_vars, km_vars>>)
    \/ (ProcessAllReturn /\ UNCHANGED <<pkg_vars, ext_vars, sim_vars, tax_vars, km_vars>>)

InitBatch ==
    /\ PkgInit
    /\ BatchInit
    /\ ExtInit
    /\ SimIdle
    /\ TaxInit
    /\ KmIdle

SpecBatch == InitBatch /\ [][BatchNext]_vars

ExtractNext ==
    \/ (ExtractStructures /\ UNCHANGED <<pkg_vars, batch_vars, sim_vars, tax_vars, km_vars>>)
    \/ (ExtractLocations /\ UNCHANGED <<pkg_vars, batch_vars, sim_vars, tax_vars, km_vars>>)
    \/ (ExtractFunctions /\ UNCHANGED <<pkg_vars, batch_vars, sim_vars, tax_vars, km_vars>>)
    \/ (ExtractRequirements /\ UNCHANGED <<pkg_vars, batch_vars, sim_vars, tax_vars, km_vars>>)
    \/ (ExtractFromPatent /\ UNCHANGED <<pkg_vars, batch_vars, sim_vars, tax_vars, km_vars>>)
    \/ (RepeatCall /\ UNCHANGED <<pkg_vars, batch_vars, sim_vars, tax_vars, km_vars>>)

InitExtract == Init

SpecExtract == InitExtract /\ [][ExtractNext]_vars

SimNext ==
    \/ (CalculateSimilarity /\ UNCHANGED <<pkg_vars, batch_vars, ext_vars, tax_vars, km_vars>>)
    \/ (CalculateReversed /\ UNCHANGED <<pkg_vars, batch_vars, ext_vars, tax_vars, km_vars>>)
    \/ (JaccardSimilarity /\ UNCHANGED <<pkg_vars, batch_vars, ext_vars, tax_vars, km_vars>>)
    \/ (CosineSimilarity /\ UNCHANGED <<pkg_vars, batch_vars, ext_vars, tax_vars, km_vars>>)
    \/ (AnalyzeAllPairs /\ UNCHANGED <<pkg_vars, batch_vars, ext_vars, tax_vars, km_vars>>)

InitSim ==
    /\ PkgInit
    /\ BatchIdle
    /\ cache = [id \in BatchIds |-> "absent"]
    /\ ExtInit
    /\ SimInit
    /\ TaxInit
    /\ KmIdle

SpecSim == InitSim /\ [][SimNext]_vars

TaxNext ==
    \/ (GetCategoryForCode /\ UNCHANGED <<pkg_vars, batch_vars, ext_vars, sim_vars, km_vars>>)
    \/ (CategorizePatentCodes /\ UNCHANGED <<pkg_vars, batch_vars, ext_vars, sim_vars, km_vars>>)
    \/ (CategorizePatent /\ UNCHANGED <<pkg_vars, batch_vars, ext_vars, sim_vars, km_vars>>)
    \/ (GetCodesForCategory /\ UNCHANGED <<pkg_vars, batch_vars, ext_vars, sim_vars, km_vars>>)
    \/ (FindMatchingCodes /\ UNCHANGED <<pkg_vars, batch_vars, ext_vars, sim_vars, km_vars>>)
    \/ (GenerateFeatureVector /\ UNCHANGED <<pkg_vars, batch_vars, ext_vars, sim_vars, km_vars>>)
    \/ (GetCategoryForCode_v2 /\ UNCHANGED <<pkg_vars, batch_vars, ext_vars, sim_vars, km_vars>>)
    \/ (GetCodesForCategory_v2 /\ UNCHANGED <<pkg_vars, batch_vars, ext_vars, sim_vars, km_vars>>)

InitTax == Init

SpecTax == InitTax /\ [][TaxNext]_vars

KmNext ==
    \/ (ExtractFeatures /\ UNCHANGED <<pkg_vars, batch_vars, ext_vars, sim_vars, tax_vars>>)

InitKm ==
    /\ PkgInit
    /\ BatchIdle
    /\ cache = [id \in BatchIds |-> "absent"]
    /\ ExtInit
    /\ SimIdle
    /\ TaxInit
    /\ KmInit

SpecKm == InitKm /\ [][KmNext]_vars

(***************************************************************************)
(* Properties of the knowledge-graph builder                              *)
(***************************************************************************)

\* the occurrences of the last build_graph_from_rfsl call, as <<kind, index>>
LastOccurrences ==
    UNION {{<<k, i>> : i \in 1..Len(last_build.local[k])} : k \in KindSet}

LastBuildReturned == files_read > 0 /\ ~last_build.raised

OccId(o) == last_build.local[o[1]][o[2]].id
OccPosition(o) == last_build.local[o[1]][o[2]].position
OccLabel(o) == Strip(Lower(last_build.local[o[1]][o[2]].entity.entity))

\* C1: after build_graph_from_rfsl returns, every entity occurrence of the
\* input has exactly one node of its own: the occurrences of the call have
\* pairwise distinct nodes, the graph grew by the number of occurrences, and
\* each occurrence's node carries that occurrence's label, kind and position.
C1_NodePerOccurrence ==
    LastBuildReturned =>
        /\ \A o1, o2 \in LastOccurrences : o1 # o2 => OccId(o1) # OccId(o2)
        /\ Cardinality(DOMAIN graph_nodes)
             = last_build.nodes_before + Cardinality(LastOccurrences)
        /\ \A o \in LastOccurrences :
             /\ OccId(o) \in DOMAIN graph_nodes
             /\ graph_nodes[OccId(o)].label = OccLabel(o)
             /\ graph_nodes[OccId(o)].type = o[1]
             /\ graph_nodes[OccId(o)].position = OccPosition(o)

\* C2: every edge of the graph joins two nodes of the same patent, however
\* many patents were built into the graph.
C2_NoCrossPatentEdge ==
    \A e \in DOMAIN graph_edges :
        /\ e[1] \in DOMAIN graph_nodes
        /\ e[2] \in DOMAIN graph_nodes
        /\ graph_nodes[e[1]].patent_id = graph_nodes[e[2]].patent_id

\* an edge exists while the graph holds nodes of two patents
C2_Witness ==
    /\ DOMAIN graph_edges # {}
    /\ \E n1, n2 \in DOMAIN graph_nodes :
         graph_nodes[n1].patent_id # graph_nodes[n2].patent_id

\* C3: two add_entity_node calls with the same normalized label never give
\* the same node, within a patent or across patents.
C3_SameLabelDistinctNodes ==
    \A i, j \in 1..Len(node_log) :
        (i # j /\ node_log[i].label = node_log[j].label)
            => node_log[i].id # node_log[j].id

\* the same label occurred twice in one patent and kind, and again in another patent
C3_Witness ==
    /\ \E i, j \in 1..Len(node_log) :
         /\ i # j
         /\ node_log[i].label = node_log[j].label
         /\ node_log[i].id[1] = node_log[j].id[1]
         /\ node_log[i].id[2] = node_log[j].id[2]
    /\ \E i, j \in 1..Len(node_log) :
         /\ node_log[i].label = node_log[j].label
         /\ node_log[i].id[1] # node_log[j].id[1]

RuleTable ==
    { <<"R", "F", ADDRESSES_DIST, "addresses">>,
      <<"F", "S", USES_DIST, "uses">>,
      <<"S", "L", LOCATED_AT_DIST, "located_at">>,
      <<"F", "L", OCCURS_AT_DIST, "occurs_at">> }

\* C4: for each proximity rule and every pair of occurrences of its two
\* kinds, extract_relations emits the relation between the pair's nodes
\* exactly when the offsets differ by strictly less than the threshold.
C4_RelationIffWithinThreshold ==
    LastBuildReturned =>
        \A rule \in RuleTable :
            \A a \in 1..Len(last_build.local[rule[1]]) :
                \A b \in 1..Len(last_build.local[rule[2]]) :
                    (<<OccId(<<rule[1], a>>), OccId(<<rule[2], b>>), rule[4]>>
                        \in last_build.relations)
                    <=> (Abs(OccPosition(<<rule[1], a>>) - OccPosition(<<rule[2], b>>))
                            < rule[3])

LastFileMalformed ==
    "patent_id" \notin last_build.keys \/ "entities" \notin last_build.keys

\* C5: a file without patent_id or without entities is skipped: the step that
\* reads it adds no node and no edge and counts an error, and the loop goes
\* on, so every file read is either built or skipped.
C5_MalformedFileSkipped ==
    /\ [](pkg_pc = "loop" /\ files_read = Len(patent_stats) + file_errors)
    /\ [][(files_read' = files_read + 1 /\ LastFileMalformed')
            => /\ graph_nodes' = graph_nodes
               /\ graph_edges' = graph_edges
               /\ patent_stats' = patent_stats
               /\ file_errors' = file_errors + 1
               /\ pkg_pc' = "loop"]_vars

\* a malformed file was skipped and the file after it was built into the graph
C5_Witness ==
    /\ file_errors >= 1
    /\ LastBuildReturned
    /\ ~LastFileMalformed
    /\ Cardinality(DOMAIN graph_nodes) > last_build.nodes_before

(***************************************************************************)
(* Properties of the batch classifier                                      *)
(***************************************************************************)

\* the analyses of the iterations that succeeded, in order
SuccessfulAnalyses(log) ==
    LET ok == SelectSeq(log, LAMBDA e : e.outcome = "result")
    IN  [i \in 1..Len(ok) |-> ok[i].result]

\* C6: process_all visits the loaded ids once each, in order, whatever the
\* outcome of earlier ids: an analysis that returns nothing or raises counts
\* as failed and the loop goes on.  When process_all returns, successful +
\* failed is the number of loaded ids, each iteration was counted once, and
\* the results (the list returned, which is self.results whenever the loop
\* ran) are exactly the successful analyses in input order.
C6_BatchAccounting ==
    /\ batch_pc \in {"idle", "loop", "returned"}
    /\ batch_pc \in {"loop", "returned"} =>
         /\ Len(call_log) = batch_idx
         /\ batch_idx <= Len(patent_ids)
         /\ \A i \in 1..Len(call_log) : call_log[i].patent_id = patent_ids[i]
         /\ successful =
              Cardinality({i \in 1..Len(call_log) : call_log[i].outcome = "result"})
         /\ failed =
              Cardinality({i \in 1..Len(call_log) : call_log[i].outcome # "result"})
    /\ batch_pc = "returned" =>
         /\ Len(call_log) = Len(patent_ids)
         /\ successful + failed = Len(patent_ids)
         /\ returned = SuccessfulAnalyses(call_log)
         /\ (patent_ids # <<>> => results = returned)

\* process_all returned after an id whose analysis raised, a later id whose
\* analysis returned nothing and a still later id that succeeded
C6_Witness ==
    /\ batch_pc = "returned"
    /\ \E i, j, k \in 1..Len(call_log) :
         /\ i < j /\ j < k
         /\ call_log[i].outcome = "raised"
         /\ call_log[j].outcome = "none"
         /\ call_log[k].outcome = "result"
    /\ Len(returned) = 1

(***************************************************************************)
(* Properties of the extractor (specification SpecExtract).                *)
(***************************************************************************)
EntityKinds == {"R", "F", "S", "L"}

TextFields == {"title", "abstract", "claims", "description"}

\* the record with the default of every missing text field written out
WithDefaults(patent_data) ==
    [patent_data EXCEPT
        !.keys = @ \cup TextFields,
        !.title = GetOr(patent_data, "title", JStr(<< >>)),
        !.abstract = GetOr(patent_data, "abstract", JStr(<< >>)),
        !.claims = GetOr(patent_data, "claims", JList(<< >>)),
        !.description = GetOr(patent_data, "description", JStr(<< >>))]

\* C7: extract_from_patent never raises for a record whose title, abstract,
\* claims or description is missing, null or of the wrong type; a missing field
\* behaves exactly like an empty string (an empty list for the claims), and a
\* kind of entity without a match is an empty list.
C7_ExtractFromPatentNeverRaises ==
    ext_call.op = "extract_from_patent" =>
        /\ ~ext_call.patent.raised
        /\ ext_call.patent = extract_from_patent(lexicon, WithDefaults(ext_call.patent_data))
        /\ \A k \in EntityKinds :
             ext_call.patent.stats[k \o "_count"] = 0 => ext_call.patent.entities[k] = << >>

\* what two extractions have in common when both return
SameRequirements(one, other) ==
    one.raised \/ other.raised \/ one.entities.R = other.entities.R

\* C8: the R list extract_from_patent returns depends on the title and the
\* abstract only: every record with the same title and abstract, whatever its
\* claims and description, gives the same R list.
C8_RequirementsFromTitleAndAbstract ==
    (ext_call.op = "extract_from_patent" /\ ~ext_call.patent.raised) =>
        \A other \in PatentRecords :
            ( /\ GetOr(other, "title", JStr(<< >>))
                    = GetOr(ext_call.patent_data, "title", JStr(<< >>))
              /\ GetOr(other, "abstract", JStr(<< >>))
                    = GetOr(ext_call.patent_data, "abstract", JStr(<< >>)) )
            => SameRequirements(ext_call.patent, extract_from_patent(lexicon, other))

\* a record whose description alone holds a requirement phrase: the functions
\* of the description are found, no requirement is
C8_Witness ==
    /\ ext_call.op = "extract_from_patent"
    /\ ~ext_call.patent.raised
    /\ "description" \in ext_call.patent_data.keys
    /\ extract_requirements(lexicon.requirement_patterns, lexicon.target_requirements,
                            ext_call.patent_data.description.s) # << >>
    /\ ext_call.patent.entities.F # << >>
    /\ ext_call.patent.entities.R = << >>

\* variant occurs in text at the 0-based position p, ignoring case
OccursAt(variant, text, p) ==
    /\ p + Len(variant) <= Len(text)
    /\ \A i \in 1..Len(variant) : LowerChar(text[p + i]) = LowerChar(variant[i])

\* C9: extract_structures(T) holds an occurrence (variant, category, p) for
\* every variant of the lexicon and every position p at which the variant
\* occurs in T ignoring case, and every occurrence it holds is at a position
\* at which its variant occurs in T.
C9_EveryOccurrenceOfAVariant ==
    ext_call.op = "extract_structures" =>
        /\ \A c \in 1..Len(lexicon.structures) :
             \A v \in 1..Len(lexicon.structures[c].variants) :
               \A p \in 0..Len(ext_call.text) :
                 OccursAt(lexicon.structures[c].variants[v], ext_call.text, p) =>
                    \E i \in 1..Len(ext_call.occurrences) :
                        /\ ext_call.occurrences[i].entity = lexicon.structures[c].variants[v]
                        /\ ext_call.occurrences[i].category = lexicon.structures[c].category
                        /\ ext_call.occurrences[i].position = p
        /\ \A i \in 1..Len(ext_call.occurrences) :
             OccursAt(ext_call.occurrences[i].entity, ext_call.text,
                      ext_call.occurrences[i].position)

DeduplicatedMethods == {"extract_structures", "extract_locations", "extract_functions"}

OccurrenceSet(occurrences) == {occurrences[i] : i \in 1..Len(occurrences)}

\* C10: extract_structures, extract_locations and extract_functions never
\* return two occurrences with the same (lowercased text, position); the same
\* method called again on the same text returns the same set of occurrences;
\* the calls leave the tables of the extractor as they were.
C10_NoDuplicateOccurrence ==
    /\ lexicon = Lexicon
    /\ ext_call.op \in DeduplicatedMethods =>
         /\ \A i, j \in 1..Len(ext_call.occurrences) :
              i # j => <<Lower(ext_call.occurrences[i].entity),
                         ext_call.occurrences[i].position>>
                       # <<Lower(ext_call.occurrences[j].entity),
                           ext_call.occurrences[j].position>>
         /\ ext_calls = 2 =>
              /\ ext_prev.op = ext_call.op
              /\ ext_prev.text = ext_call.text
              /\ OccurrenceSet(ext_call.occurrences) = OccurrenceSet(ext_prev.occurrences)

\* extract_functions called twice on a text in which the verb+noun pattern and
\* the flexible pattern of the verb match the same phrase at the same position:
\* the phrase is returned once
C10_Witness ==
    /\ ext_calls = 2
    /\ ext_call.op = "extract_functions"
    /\ Len(ext_call.occurrences) = 1
    /\ ext_call.occurrences[1].method = "verb+noun"
    /\ LET flexible == finditer(VerbFlexiblePattern(ext_call.occurrences[1].verb),
                                Lower(ext_call.text), TRUE)
       IN  \E m \in 1..Len(flexible) :
             /\ flexible[m].start = ext_call.occurrences[1].position
             /\ Strip(Group0(Lower(ext_call.text), flexible[m]))
                    = ext_call.occurrences[1].entity

(***************************************************************************)
(* PatentSimilarityAnalyzer: properties.                                   *)
(***************************************************************************)
\* the last call was calculate_similarity and it returned a record
SimilarityReturned == sim_call.op = "calculate_similarity" /\ sim_call.result.raised = ""

InUnitInterval(x) == FloatLeq(FloatZero, x) /\ FloatLeq(x, FloatOfInt(1))

\* C11: for every pair of patent ids of the graph, the overall_similarity that
\* calculate_similarity returns is 0.4*entity + 0.2*structure + 0.2*relation
\* + 0.2*size, and the overall value and the four sub-metrics lie in [0, 1].
C11_WeightedSumInUnitInterval ==
    SimilarityReturned =>
        /\ sim_call.result.overall_similarity =
             FloatAdd(FloatAdd(FloatAdd(
                 FloatMul(FloatDiv(FloatOfInt(4), FloatOfInt(10)),
                          sim_call.result.entity_similarity),
                 FloatMul(FloatDiv(FloatOfInt(2), FloatOfInt(10)),
                          sim_call.result.structure_similarity)),
                 FloatMul(FloatDiv(FloatOfInt(2), FloatOfInt(10)),
                          sim_call.result.relation_similarity)),
                 FloatMul(FloatDiv(FloatOfInt(2), FloatOfInt(10)),
                          sim_call.result.size_similarity))
        /\ InUnitInterval(sim_call.result.overall_similarity)
        /\ InUnitInterval(sim_call.result.entity_similarity)
        /\ InUnitInterval(sim_call.result.structure_similarity)
        /\ InUnitInterval(sim_call.result.relation_similarity)
        /\ InUnitInterval(sim_call.result.size_similarity)

\* the call before the last one scored the same pair in the other order
ReversedPairScored ==
    /\ sim_calls = 2
    /\ SimilarityReturned
    /\ sim_prev.result.raised = ""
    /\ sim_prev.result.patent1 = sim_call.result.patent2
    /\ sim_prev.result.patent2 = sim_call.result.patent1

\* C12: calculate_similarity(A, B) and calculate_similarity(B, A) give the same
\* entity, structure, relation and size similarity and the same overall
\* similarity, for all patent ids A and B of the graph.
C12_Symmetric ==
    (sim_calls = 2 /\ SimilarityReturned) =>
        /\ ReversedPairScored
        /\ sim_call.result.entity_similarity = sim_prev.result.entity_similarity
        /\ sim_call.result.structure_similarity = sim_prev.result.structure_similarity
        /\ sim_call.result.relation_similarity = sim_prev.result.relation_similarity
        /\ sim_call.result.size_similarity = sim_prev.result.size_similarity
        /\ sim_call.result.overall_similarity = sim_prev.result.overall_similarity

\* two patents of different node and edge counts, sharing some labels and some
\* kinds but not all, scored in both orders
C12_Witness ==
    /\ ReversedPairScored
    /\ sim_call.result.patent1 # sim_call.result.patent2
    /\ sim_call.result.graph1_stats.nodes < sim_call.result.graph2_stats.nodes
    /\ sim_call.result.graph1_stats.edges < sim_call.result.graph2_stats.edges
    /\ FloatLess(FloatZero, sim_call.result.entity_similarity)
    /\ FloatLess(sim_call.result.entity_similarity, FloatOfInt(1))
    /\ FloatLess(FloatZero, sim_call.result.structure_similarity)
    /\ FloatLess(sim_call.result.structure_similarity, FloatOfInt(1))

\* C13: for every patent whose subgraph has at least one node,
\* calculate_similarity(p, p) returns entity (Jaccard) similarity 1.0,
\* structure (cosine) similarity 1.0, relation (cosine) similarity 1.0 and
\* size similarity 1.0.
C13_Reflexive ==
    (/\ SimilarityReturned
     /\ sim_call.result.patent1 = sim_call.result.patent2
     /\ sim_call.result.graph1_stats.nodes >= 1) =>
        /\ sim_call.result.entity_similarity = FloatOfInt(1)
        /\ sim_call.result.structure_similarity = FloatOfInt(1)
        /\ sim_call.result.relation_similarity = FloatOfInt(1)
        /\ sim_call.result.size_similarity = FloatOfInt(1)

\* the patent ids the nodes of the loaded graph carry
GraphPatentIds == {full_graph.nodes[n].patent_id : n \in DOMAIN full_graph.nodes}

\* C14: analyze_all_pairs returns exactly one record for each unordered pair of
\* distinct patent ids of the graph: P*(P-1)/2 records for P patents, none
\* pairing a patent with itself, none repeating a pair in reverse order; the
\* records are ordered by non-increasing overall_similarity.
C14_AllPairsOnceSortedDescending ==
    sim_call.op = "analyze_all_pairs" =>
        /\ 2 * Len(sim_call.results)
             = Cardinality(GraphPatentIds) * (Cardinality(GraphPatentIds) - 1)
        /\ \A i \in 1..Len(sim_call.results) :
             /\ sim_call.results[i].raised = ""
             /\ sim_call.results[i].patent1 \in GraphPatentIds
             /\ sim_call.results[i].patent2 \in GraphPatentIds
             /\ sim_call.results[i].patent1 # sim_call.results[i].patent2
        /\ \A a, b \in GraphPatentIds :
             a # b => Cardinality({i \in 1..Len(sim_call.results) :
                                     {sim_call.results[i].patent1,
                                      sim_call.results[i].patent2} = {a, b}}) = 1
        /\ \A i \in 1..(Len(sim_call.results) - 1) :
             FloatLeq(sim_call.results[i + 1].overall_similarity,
                      sim_call.results[i].overall_similarity)

\* three patents whose pairs score three different values, the first pair of
\* the ids in order scoring the lowest: the sort moved it to the end
C14_Witness ==
    /\ sim_call.op = "analyze_all_pairs"
    /\ Len(sim_call.results) = 3
    /\ sim_call.results[3].patent1 = AnalyzedIds[1]
    /\ sim_call.results[3].patent2 = AnalyzedIds[2]
    /\ FloatLess(sim_call.results[3].overall_similarity,
                 sim_call.results[2].overall_similarity)
    /\ FloatLess(sim_call.results[2].overall_similarity,
                 sim_call.results[1].overall_similarity)

\* the patents whose file went through the pipeline and left no node in the graph
ZeroNodePatents ==
    {rfsl_patents[i] : i \in 1..Len(rfsl_patents)} \ GraphPatentIds

ZeroSimilarity(result) ==
    /\ result.overall_similarity = FloatZero
    /\ result.entity_similarity = FloatZero
    /\ result.structure_similarity = FloatZero
    /\ result.relation_similarity = FloatZero
    /\ result.size_similarity = FloatZero

\* C15: a patent that went through the pipeline with zero nodes (four empty
\* entity lists in its RFSL record) can still be scored: calculate_similarity
\* between it and any other patent of the pipeline returns zero-valued results
\* instead of raising an error.
C15_ZeroNodePatentScored ==
    (/\ sim_call.op = "calculate_similarity"
     /\ {sim_call.result.patent1, sim_call.result.patent2}
          \subseteq {rfsl_patents[i] : i \in 1..Len(rfsl_patents)}
     /\ {sim_call.result.patent1, sim_call.result.patent2} \cap ZeroNodePatents # {}) =>
        /\ sim_call.result.raised = ""
        /\ ZeroSimilarity(sim_call.result)

AllZero(vec) == \A k \in DOMAIN vec : vec[k] = 0

\* 1 - node_diff / 2: the size similarity when the edge difference is 0
SizeSimilarityOfNodes(nodes1, nodes2) ==
    FloatSub(FloatOfInt(1),
             FloatDiv(FloatDiv(FloatOfInt(Abs(nodes1 - nodes2)),
                               FloatOfInt(IF nodes1 > nodes2 THEN nodes1 ELSE nodes2)),
                      FloatOfInt(2)))

\* C16: no similarity computation divides by zero: jaccard_similarity returns 0
\* when both label sets are empty; cosine_similarity returns 0 when either count
\* vector is empty or all-zero, a key missing from one vector counting as 0; in
\* calculate_similarity the edge-count difference is 0 when both edge counts
\* are 0 (and so for the node counts).
C16_NoDivisionByZero ==
    /\ sim_call.op = "jaccard_similarity" =>
         /\ sim_call.value # ZeroDivisionError
         /\ (sim_call.args[1] = {} /\ sim_call.args[2] = {}) => sim_call.value = FloatZero
    /\ sim_call.op = "cosine_similarity" =>
         /\ sim_call.value # ZeroDivisionError
         /\ (AllZero(sim_call.args[1]) \/ AllZero(sim_call.args[2])) =>
                sim_call.value = FloatZero
         /\ DOMAIN sim_call.args[1] \cap DOMAIN sim_call.args[2] = {} =>
                sim_call.value = FloatZero
    /\ sim_call.op = "calculate_similarity" =>
         /\ sim_call.result.raised # "ZeroDivisionError"
         /\ (/\ sim_call.result.raised = ""
             /\ sim_call.result.graph1_stats.edges = 0
             /\ sim_call.result.graph2_stats.edges = 0) =>
                /\ sim_call.result.relation_similarity = FloatZero
                /\ sim_call.result.size_similarity =
                     SizeSimilarityOfNodes(sim_call.result.graph1_stats.nodes,
                                           sim_call.result.graph2_stats.nodes)

\* two patents without a label and without an edge were scored: the label sets,
\* the relation vectors and the edge counts were all empty or zero
C16_Witness ==
    /\ SimilarityReturned
    /\ sim_call.result.patent1 # sim_call.result.patent2
    /\ get_entity_labels(patent_subgraphs[sim_call.result.patent1]) = {}
    /\ get_entity_labels(patent_subgraphs[sim_call.result.patent2]) = {}
    /\ sim_call.result.graph1_stats.edges = 0
    /\ sim_call.result.graph2_stats.edges = 0
    /\ sim_call.result.entity_similarity = FloatZero

(***************************************************************************)
(* Taxonomy matcher: properties.                                           *)
(***************************************************************************)
\* the codes the table lists, with the category that lists each and its weight
ListedCodes ==
    UNION {{[codigo |-> CPC_TAXONOMY[c].codigos[i].codigo,
             categoria |-> CPC_TAXONOMY[c].categoria,
             tenths |-> CPC_TAXONOMY[c].codigos[i].peso] :
              i \in 1..Len(CPC_TAXONOMY[c].codigos)} : c \in 1..Len(CPC_TAXONOMY)}

IsListed(code) == \E l \in ListedCodes : l.codigo = code

Listing(code) == CHOOSE l \in ListedCodes : l.codigo = code

Distinct(codes) == \A i, j \in 1..Len(codes) : i # j => codes[i] # codes[j]

\* the weights of the first n codes that the table lists under the category,
\* added in the order of the codes
RECURSIVE WeightSum(_, _, _)
WeightSum(codes, categoria, n) ==
    IF n = 0 THEN FloatZero
    ELSE IF IsListed(codes[n]) /\ Listing(codes[n]).categoria = categoria
    THEN FloatAdd(WeightSum(codes, categoria, n - 1),
                  FloatDiv(FloatOfInt(Listing(codes[n]).tenths), FloatOfInt(10)))
    ELSE WeightSum(codes, categoria, n - 1)

NormalizedCodes(codes) == [i \in 1..Len(codes) |-> normalize_code(codes[i])]

\* C17: for any list of distinct input codes each of which is, after
\* normalization, exactly a code of the taxonomy, categorize_patent_codes
\* matches every code to the category that lists it, adds exactly that code's
\* configured weight to that category's score, and reports
\* total_codigos_matched equal to the number of input codes.
C17_ListedCodesAllMatched ==
    (/\ tax_call.op = "categorize_patent_codes"
     /\ Distinct(tax_call.codes)
     /\ \A i \in 1..Len(tax_call.codes) : IsListed(normalize_code(tax_call.codes[i]))) =>
        /\ \A i \in 1..Len(tax_call.codes) :
             \E k \in 1..Len(tax_call.result.categorias) :
                /\ tax_call.result.categorias[k].categoria
                     = Listing(normalize_code(tax_call.codes[i])).categoria
                /\ \E e \in 1..Len(tax_call.result.categorias[k].codigos_encontrados) :
                     tax_call.result.categorias[k].codigos_encontrados[e].codigo
                       = normalize_code(tax_call.codes[i])
        /\ \A k \in 1..Len(tax_call.result.categorias) :
             tax_call.result.categorias[k].score
               = WeightSum(NormalizedCodes(tax_call.codes),
                           tax_call.result.categorias[k].categoria, Len(tax_call.codes))
        /\ tax_call.result.total_codigos_matched = Len(tax_call.codes)

\* the positions <<category, code>> of the table whose code is a prefix of the
\* code given or has it as a prefix
RelatedPositions(code) ==
    {p \in UNION {{<<c, i>> : i \in 1..Len(CPC_TAXONOMY[c].codigos)} :
                    c \in 1..Len(CPC_TAXONOMY)} :
        \/ StartsWith(code, CPC_TAXONOMY[p[1]].codigos[p[2]].codigo)
        \/ StartsWith(CPC_TAXONOMY[p[1]].codigos[p[2]].codigo, code)}

\* the first of the positions in the order the index was filled
FirstPosition(positions) ==
    CHOOSE p \in positions :
        \A q \in positions : p[1] < q[1] \/ (p[1] = q[1] /\ p[2] <= q[2])

MatchIsEntryAt(match, p) ==
    /\ match.codigo = CPC_TAXONOMY[p[1]].codigos[p[2]].codigo
    /\ match.categoria = CPC_TAXONOMY[p[1]].categoria
    /\ match.peso = FloatDiv(FloatOfInt(CPC_TAXONOMY[p[1]].codigos[p[2]].peso),
                             FloatOfInt(10))

\* C18: the lookup of a code normalized by strip, uppercase and space removal:
\* when the normalized code is itself a code of the taxonomy, its own entry is
\* returned, even if a code earlier in the index is a prefix of it; otherwise
\* the entry returned is that of the first code of the taxonomy, in index
\* insertion order, that is a prefix of the input or has it as a prefix; when
\* no code is in such a relation, the result is no match and no error.
C18_ExactThenFirstPrefix ==
    tax_call.op = "get_category_for_code" =>
        /\ tax_call.normalized = RemoveSpaces(Upper(Strip(tax_call.code)))
        /\ IF IsListed(tax_call.normalized)
           THEN /\ tax_call.match.codigo = tax_call.normalized
                /\ tax_call.match.categoria = Listing(tax_call.normalized).categoria
                /\ tax_call.match.peso
                     = FloatDiv(FloatOfInt(Listing(tax_call.normalized).tenths),
                                FloatOfInt(10))
           ELSE IF RelatedPositions(tax_call.normalized) # {}
           THEN MatchIsEntryAt(tax_call.match,
                               FirstPosition(RelatedPositions(tax_call.normalized)))
           ELSE tax_call.match = None

\* a code of the taxonomy was looked up that a code earlier in the index is a
\* prefix of, the two in different categories
C18_Witness ==
    /\ tax_call.op = "get_category_for_code"
    /\ IsListed(tax_call.normalized)
    /\ tax_call.match.codigo = tax_call.normalized
    /\ \E p \in RelatedPositions(tax_call.normalized) :
         /\ CPC_TAXONOMY[p[1]].codigos[p[2]].codigo # tax_call.normalized
         /\ StartsWith(tax_call.normalized, CPC_TAXONOMY[p[1]].codigos[p[2]].codigo)
         /\ CPC_TAXONOMY[p[1]].categoria # tax_call.match.categoria
         /\ FirstPosition(RelatedPositions(tax_call.normalized)) = p

\* the codes categorize_patent_codes was given by the last call
ScoredCodes ==
    IF tax_call.op = "categorize_patent" THEN tax_call.result.all_codes ELSE tax_call.codes

\* the weights of the first n codes whose lookup gives the category, added in
\* the order of the codes
RECURSIVE MatchedWeightSum(_, _, _)
MatchedWeightSum(codes, categoria, n) ==
    IF n = 0 THEN FloatZero
    ELSE IF get_category_for_code(normalize_code(codes[n])).categoria = categoria
    THEN FloatAdd(MatchedWeightSum(codes, categoria, n - 1),
                  get_category_for_code(normalize_code(codes[n])).peso)
    ELSE MatchedWeightSum(codes, categoria, n - 1)

\* C19: in the result of categorize_patent_codes each category's score equals
\* the sum of the configured weights of the input codes matched to that
\* category, the categories are ordered by non-increasing score, and the
\* principal category reported by categorize_patent is a category of maximal
\* score (none when no code matched).
C19_ScoresSortedPrincipalMaximal ==
    tax_call.op \in {"categorize_patent_codes", "categorize_patent"} =>
        /\ \A k \in 1..Len(tax_call.result.categorias) :
             tax_call.result.categorias[k].score
               = MatchedWeightSum(ScoredCodes, tax_call.result.categorias[k].categoria,
                                  Len(ScoredCodes))
        /\ \A i \in 1..Len(ScoredCodes) :
             get_category_for_code(normalize_code(ScoredCodes[i])) # None =>
                \E k \in 1..Len(tax_call.result.categorias) :
                    tax_call.result.categorias[k].categoria
                      = get_category_for_code(normalize_code(ScoredCodes[i])).categoria
        /\ \A k \in 1..(Len(tax_call.result.categorias) - 1) :
             FloatLeq(tax_call.result.categorias[k + 1].score,
                      tax_call.result.categorias[k].score)
        /\ tax_call.op = "categorize_patent" =>
             IF \A i \in 1..Len(ScoredCodes) :
                  get_category_for_code(normalize_code(ScoredCodes[i])) = None
             THEN tax_call.result.categoria_principal = "None"
             ELSE \E k \in 1..Len(tax_call.result.categorias) :
                    /\ tax_call.result.categorias[k].categoria
                         = tax_call.result.categoria_principal
                    /\ \A j \in 1..Len(tax_call.result.categorias) :
                         FloatLeq(tax_call.result.categorias[j].score,
                                  tax_call.result.categorias[k].score)

\* categorize_patent was given codes of two categories, the category of the
\* first code scoring less than the other: the other is the principal category
C19_Witness ==
    /\ tax_call.op = "categorize_patent"
    /\ Len(tax_call.result.categorias) = 2
    /\ Len(tax_call.result.all_codes) = 3
    /\ get_category_for_code(tax_call.result.all_codes[1]).categoria
         = tax_call.result.categorias[2].categoria
    /\ FloatLess(tax_call.result.categorias[2].score, tax_call.result.categorias[1].score)
    /\ tax_call.result.categoria_principal = tax_call.result.categorias[1].categoria
    /\ Len(tax_call.result.categorias[1].codigos_encontrados) = 2


(***************************************************************************)
(* KMeansPatentClassifier: properties                                      *)
(***************************************************************************)
FeaturesExtracted == km_calls = 1

ClassifiedPatents == {km_graph.nodes[n].patent_id : n \in DOMAIN km_graph.nodes}

\* the nodes of a patent in the full graph, all of them or those of one kind
NodesOfPatent(p) == {n \in DOMAIN km_graph.nodes : km_graph.nodes[n].patent_id = p}

KindNodes(p, kind) == {n \in NodesOfPatent(p) : km_graph.nodes[n].type = kind}

\* the edges of the full graph between two nodes of a patent
EdgesOfPatent(p) ==
    {e \in DOMAIN km_graph.edges : e[1] \in NodesOfPatent(p) /\ e[2] \in NodesOfPatent(p)}

RelationEdges(p, relation) == {e \in EdgesOfPatent(p) : km_graph.edges[e] = relation}

RatioSum(row) == FloatAdd(FloatAdd(FloatAdd(row[5], row[6]), row[7]), row[8])

\* two units in the last place of 1.0: 2^-51
RoundingSlack ==
    FloatDiv(FloatOfInt(1), FloatMul(FloatOfInt(67108864), FloatOfInt(33554432)))

NearOne(x) ==
    /\ FloatLeq(FloatSub(FloatOfInt(1), RoundingSlack), x)
    /\ FloatLeq(x, FloatAdd(FloatOfInt(1), RoundingSlack))

\* the row of patent p holds 20 values, each group at its place
RowInOrder(row, p) ==
    /\ Len(row) = 20
    /\ \A k \in 1..4 : row[k] = FloatOfInt(Cardinality(KindNodes(p, Kinds[k])))
    /\ \A k \in 1..4 : row[8 + k] = FloatOfInt(Cardinality(RelationEdges(p, RelationKinds[k])))
    /\ row[13] = FloatOfInt(Cardinality(NodesOfPatent(p)))
    /\ row[14] = FloatOfInt(Cardinality(EdgesOfPatent(p)))
    /\ FloatLeq(FloatZero, row[15]) /\ FloatLeq(row[15], FloatOfInt(1))
    /\ FloatLeq(FloatZero, row[16]) /\ FloatLeq(row[16], row[17])
    /\ \E d \in 0..(2 * Cardinality(EdgesOfPatent(p))) : row[17] = FloatOfInt(d)
    /\ FloatLeq(FloatZero, row[18])
    /\ \E c \in 1..Cardinality(NodesOfPatent(p)) : row[19] = FloatOfInt(c)
    /\ FloatLeq(FloatZero, row[20]) /\ FloatLeq(row[20], FloatOfInt(1))
    /\ \A k \in 1..4 :
          \/ \A j \in 1..4 : row[j] = FloatZero
          \/ row[4 + k] = FloatDiv(row[k], FloatAdd(FloatAdd(FloatAdd(row[1], row[2]), row[3]),
                                                    row[4]))

FewNodesZero(row, p) ==
    Cardinality(NodesOfPatent(p)) < 2 => row[15] = FloatZero /\ row[20] = FloatZero

NoTypedNode(p) == \A k \in 1..4 : KindNodes(p, Kinds[k]) = {}

\* C20: extract_features produces for every patent of the graph, whatever the
\* shape of its subgraph, a row of exactly 20 values in the fixed order (4 kind
\* counts, 4 kind ratios, 4 relation counts, node count, edge count, density,
\* mean/max/std degree, component count, centralization); the four ratios are 0
\* when the patent has no typed node and otherwise sum to 1, and density and
\* centralization are 0 when the subgraph has fewer than 2 nodes.
C20_TwentyFeaturesRatiosSumToOne ==
    FeaturesExtracted =>
        /\ {km_patent_ids[i] : i \in 1..Len(km_patent_ids)} = ClassifiedPatents
        /\ Len(feature_matrix) = Cardinality(ClassifiedPatents)
        /\ Len(feature_names) = 20
        /\ \A i \in 1..Len(feature_matrix) :
              /\ RowInOrder(feature_matrix[i], km_patent_ids[i])
              /\ FewNodesZero(feature_matrix[i], km_patent_ids[i])
              /\ IF NoTypedNode(km_patent_ids[i])
                 THEN \A k \in 5..8 : feature_matrix[i][k] = FloatZero
                 ELSE RatioSum(feature_matrix[i]) = FloatOfInt(1)

\* C20, amended: the same, the four ratios of a patent with a typed node added
\* up in floating point giving 1 up to rounding: a sum within 2^-51 of 1.
C20_TwentyFeaturesRatiosSumNearOne ==
    FeaturesExtracted =>
        /\ {km_patent_ids[i] : i \in 1..Len(km_patent_ids)} = ClassifiedPatents
        /\ Len(feature_matrix) = Cardinality(ClassifiedPatents)
        /\ Len(feature_names) = 20
        /\ \A i \in 1..Len(feature_matrix) :
              /\ RowInOrder(feature_matrix[i], km_patent_ids[i])
              /\ FewNodesZero(feature_matrix[i], km_patent_ids[i])
              /\ IF NoTypedNode(km_patent_ids[i])
                 THEN \A k \in 5..8 : feature_matrix[i][k] = FloatZero
                 ELSE NearOne(RatioSum(feature_matrix[i]))

\* features were extracted from a graph of three patents, one of a single node,
\* one of three connected nodes, and one whose ratios do not add up to 1 exactly
C20_Witness ==
    /\ FeaturesExtracted
    /\ Len(feature_matrix) = 3
    /\ \E i \in 1..3 : Cardinality(NodesOfPatent(km_patent_ids[i])) = 1
    /\ \E i \in 1..3 : feature_matrix[i][14] = FloatOfInt(2)
                        /\ FloatLess(FloatZero, feature_matrix[i][20])
    /\ \E i \in 1..3 : /\ RatioSum(feature_matrix[i]) # FloatOfInt(1)
                       /\ NearOne(RatioSum(feature_matrix[i]))

(***************************************************************************)
(* Properties of the knowledge-graph builder: the stored graph             *)
(***************************************************************************)
RelationNames == {"addresses", "uses", "located_at", "occurs_at"}

\* the threshold of the rule that creates a relation
Threshold(relation) == (CHOOSE rule \in RuleTable : rule[4] = relation)[3]

\* C21: in every graph state reachable by build_graph_from_rfsl calls, for each
\* edge (u, v) with relation r the absolute difference between the positions
\* stored on node u and node v is strictly below the threshold of r
\* (addresses 200, uses 100, located_at 50, occurs_at 80).
C21_EdgeWithinStoredThreshold ==
    \A e \in DOMAIN graph_edges :
        /\ graph_edges[e] \in RelationNames
        /\ Abs(graph_nodes[e[1]].position - graph_nodes[e[2]].position)
             < Threshold(graph_edges[e])

\* the kinds a relation joins, source and target
EndpointKinds(relation) ==
    LET rule == CHOOSE rule \in RuleTable : rule[4] = relation IN <<rule[1], rule[2]>>

\* C22: in every reachable graph state each edge's relation is one of
\* addresses, uses, located_at, occurs_at and fixes the kinds of its endpoints:
\* addresses goes from a Requirement node to a Function node, uses from Function
\* to Structure, located_at from Structure to Location, occurs_at from Function
\* to Location; no edge has any other combination, and no edge is a self-loop.
C22_RelationFixesEndpointKinds ==
    \A e \in DOMAIN graph_edges :
        /\ graph_edges[e] \in RelationNames
        /\ <<graph_nodes[e[1]].type, graph_nodes[e[2]].type>>
             \in {<<"R", "F">>, <<"F", "S">>, <<"S", "L">>, <<"F", "L">>}
        /\ graph_edges[e] = "addresses"
             <=> (graph_nodes[e[1]].type = "R" /\ graph_nodes[e[2]].type = "F")
        /\ graph_edges[e] = "uses"
             <=> (graph_nodes[e[1]].type = "F" /\ graph_nodes[e[2]].type = "S")
        /\ graph_edges[e] = "located_at"
             <=> (graph_nodes[e[1]].type = "S" /\ graph_nodes[e[2]].type = "L")
        /\ graph_edges[e] = "occurs_at"
             <=> (graph_nodes[e[1]].type = "F" /\ graph_nodes[e[2]].type = "L")
        /\ e[1] # e[2]

\* the graph holds edges of two relations, uses and occurs_at, built from two files
C22_Witness ==
    /\ files_read = 2
    /\ Cardinality({graph_edges[e] : e \in DOMAIN graph_edges}) >= 2
    /\ \E e \in DOMAIN graph_edges : graph_edges[e] = "occurs_at"
    /\ \E e \in DOMAIN graph_edges : graph_edges[e] = "uses"

\* the record the last build read, put together again from the locals of the call
LastRecord ==
    [keys |-> last_build.keys,
     patent_id |-> last_build.patent_id,
     entities |-> [keys |-> last_build.entity_keys,
                   R |-> [i \in 1..Len(last_build.local.R) |-> last_build.local.R[i].entity],
                   F |-> [i \in 1..Len(last_build.local.F) |-> last_build.local.F[i].entity],
                   S |-> [i \in 1..Len(last_build.local.S) |-> last_build.local.S[i].entity],
                   L |-> [i \in 1..Len(last_build.local.L) |-> last_build.local.L[i].entity]]]

\* what a builder that has processed no other patent makes of a record
BuiltAlone(rfsl_data) ==
    build_graph_from_rfsl([nodes |-> <<>>, edges |-> <<>>, counter |-> <<>>], rfsl_data)

\* the nodes of a patent and the edges between them
PatentPart(nodes, edges, p) ==
    [nodes |-> [n \in {x \in DOMAIN nodes : nodes[x].patent_id = p} |-> nodes[n]],
     edges |-> [e \in {d \in DOMAIN edges : /\ d[1] \in DOMAIN nodes
                                            /\ d[2] \in DOMAIN nodes
                                            /\ nodes[d[1]].patent_id = p
                                            /\ nodes[d[2]].patent_id = p} |-> edges[e]]]

\* the same graph up to the names of the nodes
SameUpToIds(g, h) ==
    /\ Cardinality(DOMAIN g.nodes) = Cardinality(DOMAIN h.nodes)
    /\ Cardinality(DOMAIN g.edges) = Cardinality(DOMAIN h.edges)
    /\ \E f \in [DOMAIN g.nodes -> DOMAIN h.nodes] :
          /\ \A n1, n2 \in DOMAIN g.nodes : f[n1] = f[n2] => n1 = n2
          /\ \A n \in DOMAIN g.nodes : g.nodes[n] = h.nodes[f[n]]
          /\ \A e \in DOMAIN g.edges :
                /\ <<f[e[1]], f[e[2]]>> \in DOMAIN h.edges
                /\ h.edges[<<f[e[1]], f[e[2]]>>] = g.edges[e]

\* every add_entity_node call made for the patent of the last build was made by it
LastPatentBuiltOnce ==
    /\ LastBuildReturned
    /\ Cardinality({i \in 1..Len(node_log) : node_log[i].id[1] = last_build.patent_id})
         = Cardinality(LastOccurrences)

\* C23: graph construction of one patent is independent of the other patents:
\* the subgraph a builder produces for a patent (its number of nodes, their
\* kinds, labels and positions, and the edges between them, up to renaming of
\* node ids) is the same whichever other patents the same builder processed
\* before it: it is the subgraph a builder that processed no other patent
\* produces from the same record.
C23_PatentSubgraphIndependent ==
    LastPatentBuiltOnce =>
        SameUpToIds(PatentPart(graph_nodes, graph_edges, last_build.patent_id),
                    PatentPart(BuiltAlone(LastRecord).nodes, BuiltAlone(LastRecord).edges,
                               last_build.patent_id))

\* the statistics were taken of the graph as it stands
StatisticsCurrent == global_stats.files_read = files_read

\* C26: after any sequence of builds, get_statistics is consistent with the
\* graph: total_nodes and total_edges are the graph's node and edge counts, the
\* counts in nodes_by_type cover only the kinds R, F, S, L and sum to
\* total_nodes, and the counts in edges_by_relation cover only the four
\* relations and sum to total_edges.
C26_StatisticsMatchGraph ==
    StatisticsCurrent =>
        /\ global_stats.stats.total_nodes = Cardinality(DOMAIN graph_nodes)
        /\ global_stats.stats.total_edges = Cardinality(DOMAIN graph_edges)
        /\ DOMAIN global_stats.stats.nodes_by_type \subseteq KindSet
        /\ SumOver(global_stats.stats.nodes_by_type, DOMAIN global_stats.stats.nodes_by_type)
             = global_stats.stats.total_nodes
        /\ DOMAIN global_stats.stats.edges_by_relation \subseteq RelationNames
        /\ SumOver(global_stats.stats.edges_by_relation,
                   DOMAIN global_stats.stats.edges_by_relation)
             = global_stats.stats.total_edges

\* statistics taken after two builds, of a graph with two nodes of one kind, a
\* node of another and an edge
C26_Witness ==
    /\ StatisticsCurrent
    /\ Len(patent_stats) = 2
    /\ \E t \in DOMAIN global_stats.stats.nodes_by_type :
          global_stats.stats.nodes_by_type[t] = 2
    /\ Cardinality(DOMAIN global_stats.stats.nodes_by_type) = 2
    /\ global_stats.stats.total_edges >= 1

\* C27: a build_graph_from_rfsl call that fails for any reason (a record
\* without patent_id or entities, an entities record that lacks one of the four
\* kind lists, an entity without its text) leaves the builder as it was before
\* the call: the graph has the same nodes and edges and the label counters are
\* unchanged.
C27_FailedBuildLeavesBuilder ==
    [][(files_read' = files_read + 1 /\ last_build'.raised)
         => /\ graph_nodes' = graph_nodes
            /\ graph_edges' = graph_edges
            /\ entity_counter' = entity_counter]_vars

\* C28: building the graph is idempotent per record: running
\* build_graph_from_rfsl twice on the same RFSL record with the same builder
\* leaves the graph with the same nodes and edges as running it once.
C28_BuildIdempotent ==
    [][(/\ files_read' = files_read + 1
        /\ LastBuildReturned
        /\ ~last_build'.raised
        /\ LastRecord' = LastRecord)
         => /\ graph_nodes' = graph_nodes
            /\ graph_edges' = graph_edges]_vars

(***************************************************************************)
(* Properties of extract_requirements (specification SpecExtract).         *)
(***************************************************************************)
\* the deduplication key as the claim words it: the entity text lowercased,
\* stripped, cut to its first 40 characters
FirstForty(s) == [i \in 1..(IF Len(s) < 40 THEN Len(s) ELSE 40) |-> s[i]]

DeduplicationKey(r) == FirstForty(Strip(Lower(r.entity)))

\* the place of a method among the five passes
PassOrder ==
    <<"explicit_pattern", "intro_pattern", "implicit_pattern", "improvement_keyword",
      "target_keyword_context">>

PassOf(r) == CHOOSE i \in 1..Len(PassOrder) : PassOrder[i] = r.method

\* C24: extract_requirements never returns two requirements with the same
\* deduplication key; among the candidates of the five passes that share a key,
\* the one kept is the first found, taking the passes in the order explicit
\* pattern, intro phrase, implicit action, improvement keyword, target-keyword
\* context.
C24_FirstRequirementOfEachKey ==
    ext_call.op = "extract_requirements" =>
        /\ \A i, j \in 1..Len(ext_call.occurrences) :
              i # j => DeduplicationKey(ext_call.occurrences[i])
                         # DeduplicationKey(ext_call.occurrences[j])
        /\ \A i, j \in 1..Len(ext_call.found) :
              i < j => PassOf(ext_call.found[i]) <= PassOf(ext_call.found[j])
        /\ \A c \in 1..Len(ext_call.found) :
              \E i \in 1..Len(ext_call.occurrences) :
                 DeduplicationKey(ext_call.occurrences[i]) = DeduplicationKey(ext_call.found[c])
        /\ \A i \in 1..Len(ext_call.occurrences) :
              \E c \in 1..Len(ext_call.found) :
                 /\ ext_call.found[c] = ext_call.occurrences[i]
                 /\ \A d \in 1..(c - 1) :
                       DeduplicationKey(ext_call.found[d])
                         # DeduplicationKey(ext_call.occurrences[i])

\* three passes found the same requirement and the explicit one was kept; the
\* context of the target keyword, another key, was kept too
C24_Witness ==
    /\ ext_call.op = "extract_requirements"
    /\ Len(ext_call.occurrences) = 2
    /\ ext_call.occurrences[1].method = "explicit_pattern"
    /\ ext_call.occurrences[2].method = "target_keyword_context"
    /\ \E c, d \in 1..Len(ext_call.found) :
          /\ ext_call.found[c].method = "intro_pattern"
          /\ ext_call.found[d].method = "improvement_keyword"
          /\ DeduplicationKey(ext_call.found[c]) = DeduplicationKey(ext_call.occurrences[1])
          /\ DeduplicationKey(ext_call.found[d]) = DeduplicationKey(ext_call.occurrences[1])

\* two candidates agree on their first 40 characters and differ after them: the
\* first is kept
C24_WitnessLongKey ==
    /\ ext_call.op = "extract_requirements"
    /\ Len(ext_call.occurrences) = 1
    /\ \E c \in 1..Len(ext_call.found) :
          /\ ext_call.found[c].entity # ext_call.occurrences[1].entity
          /\ Len(ext_call.found[c].entity) > 40

(***************************************************************************)
(* Properties of the counters of categorize_patent_codes.                  *)
(***************************************************************************)
\* the number of entries of codigos_encontrados in the first n categories
RECURSIVE EntriesFound(_, _)
EntriesFound(categorias, n) ==
    IF n = 0 THEN 0
    ELSE EntriesFound(categorias, n - 1) + Len(categorias[n].codigos_encontrados)

\* the list repeats a code, as written or after normalization
RepeatsCode(codes) ==
    \E i, j \in 1..Len(codes) :
        i # j /\ normalize_code(codes[i]) = normalize_code(codes[j])

\* C29: the counters returned by categorize_patent_codes agree with its score
\* detail for every input list, including lists that repeat a code:
\* total_codigos_matched equals the number of entries of codigos_encontrados
\* over all categories, no code is entered (and its weight added) twice, and
\* total_codigos_matched never exceeds total_codigos_input.
C29_CountersAgreeWithDetail ==
    tax_call.op = "categorize_patent_codes" =>
        /\ tax_call.result.total_codigos_matched
             = EntriesFound(tax_call.result.categorias, Len(tax_call.result.categorias))
        /\ \A k \in 1..Len(tax_call.result.categorias) :
             \A i, j \in 1..Len(tax_call.result.categorias[k].codigos_encontrados) :
                i # j => tax_call.result.categorias[k].codigos_encontrados[i].codigo
                           # tax_call.result.categorias[k].codigos_encontrados[j].codigo
        /\ tax_call.result.total_codigos_matched <= tax_call.result.total_codigos_input

(***************************************************************************)
(* Properties of the taxonomy tables.                                      *)
(***************************************************************************)
\* C25: the taxonomy is read-only after load: no sequence of
\* get_category_for_code, get_codes_for_category, find_matching_codes,
\* categorize_patent_codes, categorize_patent and generate_feature_vector calls
\* changes CPC_TAXONOMY or CODE_INDEX: the codes, categories, descriptions and
\* weights after the calls are those the tables were loaded with.
C25_TaxonomyReadOnly ==
    /\ cpc_taxonomy = CPC_TAXONOMY
    /\ code_index = build_code_index

\* two calls were made, the first a categorize_patent that matched two codes
\* to their entries of the index, the second the generate_feature_vector on
\* its result
C25_Witness ==
    /\ tax_calls = 2
    /\ tax_call.op = "generate_feature_vector"
    /\ tax_call.feature_vector.matched_codes = 2
    /\ \E c \in 1..Len(tax_call.feature_vector.scores) :
         FloatLess(FloatZero, tax_call.feature_vector.scores[c].score)
    /\ \A k \in 1..Len(tax_call.result.codigos_matched) :
         \E i \in 1..Len(code_index) : tax_call.result.codigos_matched[k].match = code_index[i]

(***************************************************************************)
(* Properties of the two lookups of the taxonomies.                        *)
(***************************************************************************)
\* the entry is that of the listed code under the category
EntryListedUnder(entry, category_id, listed) ==
    /\ entry.codigo = listed.codigo
    /\ entry.categoria = category_id
    /\ entry.peso = FloatDiv(FloatOfInt(listed.peso), FloatOfInt(10))
    /\ entry.descripcion = listed.descripcion

ListsCode(codigos, codigo) == \E i \in 1..Len(codigos) : codigos[i].codigo = codigo

\* C30: lookup by code and lookup by category agree in both taxonomies: for
\* every category c and every code k that get_codes_for_category(c) lists,
\* get_category_for_code(k) returns category c with the weight and the
\* description c lists for k, and no other category lists k.
C30_LookupsAgree ==
    /\ tax_call.op = "get_codes_for_category" =>
         \A i \in 1..Len(tax_call.codigos) :
            /\ EntryListedUnder(get_category_for_code(tax_call.codigos[i].codigo),
                                tax_call.category_id, tax_call.codigos[i])
            /\ \A other \in CategoryIds \ {tax_call.category_id} :
                 ~ListsCode(get_codes_for_category(other), tax_call.codigos[i].codigo)
    /\ tax_call.op = "get_codes_for_category_v2" =>
         \A i \in 1..Len(tax_call.codigos) :
            /\ EntryListedUnder(get_category_for_code_v2(tax_call.codigos[i].codigo),
                                tax_call.category_id, tax_call.codigos[i])
            /\ \A other \in CategoryIds_v2 \ {tax_call.category_id} :
                 ~ListsCode(get_codes_for_category_v2(other), tax_call.codigos[i].codigo)

====
